---- MODULE Spec2Model ----
(***************************************************************************)
(* Booking marketplace backend: the booking guard (reserve / cancel), the  *)
(* slot occupancy properties, the live-update broadcast, the review guard  *)
(* with the rating aggregator, the event listing with its order and        *)
(* paging, event deletion, the currency conversion and the live-update     *)
(* subscriber, modelled from backend/app/{api,services,crud,models}.       *)
(*                                                                         *)
(* Every request runs in its own database session.  A request's database   *)
(* statements (SELECT count, INSERT+COMMIT, UPDATE+COMMIT, lazy load of    *)
(* slot.bookings) are separate steps that interleave with the steps of     *)
(* the other in-flight requests; each statement sees the rows committed    *)
(* at the moment it runs.                                                  *)
(***************************************************************************)
EXTENDS Integers, Sequences, FiniteSets, TLC

\* ---------------------------------------------------------------- bounds
\* requests accepted in one run; the clock advances by one per request
MaxClock == 3
\* review requests accepted in one run
MaxReviewOps == 2
\* messages published on the channels in one run
MaxPublish == 2
\* rows of the booking table the listing is sorted over
MaxStored == 2
\* slots in the payload of one create_event call
MaxSlots == 2

\* ---------------------------------------------------------------- universe
Procs == {"p1", "p2"}
EventIds == {"e1", "e2"}
SlotIds == {"s1", "s2"}
NoSlot == "s0"
Emails == {"a", "b"}
\* every visitor; "c" never sends a request
Visitors == Emails \cup {"c"}
Names == {"ann"}
NoBooking == 0
\* (event_id, slot_id) of a reservation request: each slot under its own
\* event, a slot under another event, and a slot id that is not stored
ReserveTargets == {<<"e1", "s1">>, <<"e2", "s2">>, <<"e1", "s2">>, <<"e1", NoSlot>>}

CONFIRMED == "CONFIRMED"
CANCELLED == "CANCELLED"
BookingStatus == {CONFIRMED, CANCELLED}

VARIABLES
    slots,       \* slot table: slot id -> [event_id, max_bookings]
    bookings,    \* booking table: sequence of rows, a row's id is its index
    pc,          \* position of each request handler
    req,         \* the request a handler is serving
    booking,     \* the handler's local `booking` (id of the row it holds)
    result,      \* outcome of the handler's last request
    published,   \* calls of redis_publish, in order
    emailQueue,  \* booking ids handed to send_booking_email.delay
    clock,       \* datetime.utcnow()
    reviews,     \* review table: sequence of rows, a row's id is its index
    events,      \* event table: event id -> [rating_avg, rating_count]
    rpc,         \* position of each review request handler
    rreq,        \* the review request a handler is serving
    rloc,        \* the handler's locals: loaded review, avg and cnt
    rresult,     \* outcome of the handler's last review request
    rclock,      \* review requests accepted so far
    catalogue,   \* event table as the listing reads it
    filters,     \* the EventFilter of the listing request
    listing,     \* outcome of the listing request
    fxCache,     \* the rate table cached in Redis under fx:rates
    rates,       \* the rate table the caller holds
    fxFetch,     \* how the caller's table was obtained
    fxCall,      \* the calls of get_rates in flight, one per caller
    converted,   \* the last call of convert_minor and its outcome
    wsClient,    \* each connection's client side: open or closed
    wsPc,        \* position of each connection's event_updates_ws
    wsEvent,     \* the event_id of each connection
    wsSub,       \* whether the connection's pubsub is subscribed to its channel
    wsPing,      \* each connection's ping_task
    wsInbox,     \* messages the connection's pubsub has not handed over yet
    wsReceived,  \* messages delivered to the client, in order
    wsPublished, \* messages published on the channels so far
    delResult,   \* outcome of the last retrieval or deletion of an event
    creation,    \* each create_event call: position, payload, event id, outcome
    payload      \* the slot update a handler has built and not yet published

bvars == <<slots, bookings, pc, req, booking, result, published, emailQueue, clock>>
rvars == <<reviews, events, rpc, rreq, rloc, rresult, rclock>>
lvars == <<catalogue, filters, listing>>
fvars == <<fxCache, rates, fxFetch, converted, fxCall>>
wvars == <<wsClient, wsPc, wsEvent, wsSub, wsPing, wsInbox, wsReceived, wsPublished>>
dvars == <<delResult>>
cvars == <<creation>>
uvars == <<payload>>
xvars == <<fvars, wvars, dvars, cvars, uvars>>
vars == <<slots, bookings, pc, req, booking, result, published, emailQueue, clock,
          reviews, events, rpc, rreq, rloc, rresult, rclock,
          catalogue, filters, listing,
          fxCache, rates, fxFetch, converted, fxCall,
          wsClient, wsPc, wsEvent, wsSub, wsPing, wsInbox, wsReceived, wsPublished,
          delResult, creation, payload>>

NoReq == [kind |-> "none", event_id |-> "e1", slot_id |-> NoSlot, name |-> "ann",
          email |-> "a", booking_id |-> NoBooking, status |-> CONFIRMED]

Max(a, b) == IF a >= b THEN a ELSE b

\* ---------------------------------------------------------------- store
BookingIds == DOMAIN bookings

\* Slot.bookings relationship: every booking row that references the slot
SlotBookings(s) == {i \in BookingIds : bookings[i].slot_id = s}

booking_exists(s, e) ==
    Cardinality({i \in BookingIds : /\ bookings[i].slot_id = s
                                    /\ bookings[i].email = e
                                    /\ bookings[i].status = CONFIRMED}) > 0

booking_count(s) ==
    Cardinality({i \in BookingIds : /\ bookings[i].slot_id = s
                                    /\ bookings[i].status = CONFIRMED})

\* a uniqueness constraint that covers CONFIRMED rows only
uix_confirmed_only(s, e) ==
    \E i \in BookingIds : /\ bookings[i].slot_id = s
                          /\ bookings[i].email = e
                          /\ bookings[i].status = CONFIRMED

\* no uniqueness constraint on the table at all
uix_absent(s, e) == FALSE

\* UNIQUE (slot_id, email), no status qualifier: TRUE when a row with the
\* pair is already stored, so that an INSERT of the pair is rejected
uix_slot_email(s, e) ==
    \E i \in BookingIds : bookings[i].slot_id = s /\ bookings[i].email = e

is_full(s) == Cardinality(SlotBookings(s)) >= slots[s].max_bookings

remaining(s) == Max(slots[s].max_bookings - Cardinality(SlotBookings(s)), 0)

channel(s) == <<"event", slots[s].event_id>>

\* ---------------------------------------------------------------- reviews
Reviewers == {"r1", "r2"}
\* the handler that serves the cancel requests while reviews are written
Cancellers == {"p1"}
\* ReviewCreate.rating: conint(ge=1, le=5); two of the five values
Ratings == {2, 5}
NoRating == 0
NoReview == 0
NoComment == "none"
\* SQL AVG over no rows is NULL; otherwise the mean, kept as sum over count
NullAvg == [num |-> 0, den |-> 0]

NoRReq == [kind |-> "none", event_id |-> "e1", booking_id |-> NoBooking,
           review_id |-> NoReview, rating |-> NoRating, comment |-> NoComment]

NoRLoc == [review_id |-> NoReview, event_id |-> "e1", rating |-> NoRating,
           comment |-> NoComment, avg |-> NullAvg, cnt |-> 0]

ReviewIds == DOMAIN reviews

\* rows of the review table; a deleted row keeps its index and is not present
EventReviews(e) == {i \in ReviewIds : reviews[i].present /\ reviews[i].event_id = e}

BookingReviews(b) == {i \in ReviewIds : reviews[i].present /\ reviews[i].booking_id = b}

review_exists(b) == Cardinality(BookingReviews(b)) > 0

get_review(i) == i \in ReviewIds /\ reviews[i].present

RECURSIVE SumRatings(_)
SumRatings(S) ==
    IF S = {} THEN 0
    ELSE LET i == CHOOSE x \in S : TRUE
         IN  reviews[i].rating + SumRatings(S \ {i})

\* select avg(Review.rating), count(Review.id) where Review.event_id == e
avg_rating(e) ==
    IF EventReviews(e) = {} THEN NullAvg
    ELSE [num |-> SumRatings(EventReviews(e)), den |-> Cardinality(EventReviews(e))]

count_reviews(e) == Cardinality(EventReviews(e))

\* the booking's event, through booking.slot.event_id
booking_event(b) == slots[bookings[b].slot_id].event_id

ReviewStoreInit ==
    /\ reviews = <<>>
    /\ events = [e \in EventIds |-> [rating_avg |-> NullAvg, rating_count |-> 0]]
    /\ rpc = [r \in Reviewers |-> "idle"]
    /\ rreq = [r \in Reviewers |-> NoRReq]
    /\ rloc = [r \in Reviewers |-> NoRLoc]
    /\ rresult = [r \in Reviewers |-> "none"]
    /\ rclock = 0

\* ---------------------------------------------------------------- listing
NoSearch == <<>>
NoCategory == "none"
NoPrice == -1
Categories == {"Design", "Business"}

\* EventFilter.size: its default and its upper limit
DefaultSize == 20
MaxSize == 100

\* popularity counts the bookings of the last thirty days; the clock is in days
ThirtyDays == 30

NoFilter == [search |-> NoSearch, category |-> NoCategory, price_min |-> NoPrice,
             price_max |-> NoPrice, sort |-> "recent", page |-> 1, size |-> DefaultSize]

NoListing == [status |-> "none", ids |-> {}, total |-> 0, order |-> <<>>, items |-> <<>>]

ListingStoreInit ==
    /\ catalogue = [e \in EventIds |->
                      [title |-> <<"b">>, description |-> <<"c">>, host_name |-> <<"c">>,
                       category |-> "Design", price_minor |-> 0, created_at |-> 0]]
    /\ filters = NoFilter
    /\ listing = NoListing

\* ---------------------------------------------------------------- fx
Currencies == {"USD", "EUR", "GBP"}
Amounts == {0, 5, 15, 4500}

\* rates are held in tenths: the rate 1.0 is RateUnit
RateUnit == 10

\* a table without any currency; also the empty cache
NoRates == [c \in {} |-> RateUnit]

\* the tables the remote service answers with
RemoteTables ==
    { [c \in {"USD", "EUR"} |-> IF c = "USD" THEN RateUnit ELSE 9],
      [c \in Currencies |-> IF c = "USD" THEN RateUnit ELSE IF c = "EUR" THEN 9 ELSE 4] }

\* the tables a caller may hand to convert_minor
RateTables ==
    UNION { [S -> {9, RateUnit}] : S \in SUBSET Currencies } \cup RemoteTables

\* the table _fetch_rates_remote answers with when the request fails
FallbackAllCurrencies == [c \in Currencies |-> RateUnit]

FallbackRates == [c \in {"USD"} |-> RateUnit]

NoConversion == [amount_minor |-> 0, from_currency |-> "USD", to_currency |-> "USD",
                 rates |-> NoRates, fetch |-> "none", status |-> "none", value |-> 0]

\* round(n / d) of Python 3 for n >= 0 and d > 0: to the nearest integer, a
\* tie to the even one
round(n, d) ==
    LET q == n \div d
        r == n % d
    IN  IF 2 * r < d THEN q
        ELSE IF 2 * r > d THEN q + 1
        ELSE IF q % 2 = 0 THEN q ELSE q + 1

convert_minor_truncating(amount_minor, from_currency, to_currency, table) ==
    IF from_currency = to_currency
    THEN [status |-> "ok", value |-> amount_minor]
    ELSE IF to_currency \notin DOMAIN table \/ from_currency \notin DOMAIN table
         THEN [status |-> "ValueError", value |-> 0]
         ELSE [status |-> "ok",
               value |-> (amount_minor * table[to_currency]) \div table[from_currency]]

convert_minor_defaulting(amount_minor, from_currency, to_currency, table) ==
    LET rate(c) == IF c \in DOMAIN table THEN table[c] ELSE RateUnit
    IN  IF from_currency = to_currency
        THEN [status |-> "ok", value |-> amount_minor]
        ELSE [status |-> "ok",
              value |-> round(amount_minor * rate(to_currency), rate(from_currency))]

\* the conversion: the amount itself between equal currencies, ValueError
\* ("Missing FX rate") on a KeyError of either lookup, else the rounded product
convert_minor(amount_minor, from_currency, to_currency, table) ==
    IF from_currency = to_currency
    THEN [status |-> "ok", value |-> amount_minor]
    ELSE IF to_currency \notin DOMAIN table \/ from_currency \notin DOMAIN table
         THEN [status |-> "ValueError", value |-> 0]
         ELSE [status |-> "ok",
               value |-> round(amount_minor * table[to_currency], table[from_currency])]

\* the callers of get_rates: request handlers and the refresh_rates worker
FxCallers == {"g1", "g2"}

NoCall == [pc |-> "idle", force_refresh |-> FALSE, rates |-> NoRates, fetch |-> "none",
           read_ok |-> TRUE, write_ok |-> TRUE]

FxStoreInit ==
    /\ fxCache = NoRates
    /\ rates = NoRates
    /\ fxFetch = "none"
    /\ converted = NoConversion
    /\ fxCall = [g \in FxCallers |-> NoCall]

\* ---------------------------------------------------------------- websocket
Conns == {"c1", "c2"}

\* the connections C are about to be made
WsConnect(C) ==
    /\ wsClient = [c \in C |-> "open"]
    /\ wsPc = [c \in C |-> "new"]
    /\ wsEvent = [c \in C |-> "e1"]
    /\ wsSub = [c \in C |-> FALSE]
    /\ wsPing = [c \in C |-> "none"]
    /\ wsInbox = [c \in C |-> <<>>]
    /\ wsReceived = [c \in C |-> <<>>]
    /\ wsPublished = 0

\* no client connects
WsStoreInit == WsConnect({})

\* ---------------------------------------------------------------- event deletion
NoDeletion == [op |-> "none", event_id |-> "e1", status |-> "none"]

DeleteStoreInit == delResult = NoDeletion

\* ---------------------------------------------------------------- event creation
Creators == {"k1", "k2"}
NoEvent == "e0"

NoCreation == [pc |-> "idle", via |-> "none", starts |-> <<>>, event_id |-> NoEvent,
               result |-> "none"]

CreateStoreInit == creation = [k \in Creators |-> NoCreation]

\* ---------------------------------------------------------------- slot updates
NoPayload == [slot_id |-> NoSlot, remaining |-> 0, is_full |-> FALSE]

UpdateStoreInit == payload = [p \in Procs |-> NoPayload]

\* ---------------------------------------------------------------- init
\* two events with one slot each: s1 seats one, s2 seats two
Init ==
    /\ slots = [s \in SlotIds |->
                  IF s = "s1" THEN [event_id |-> "e1", max_bookings |-> 1]
                              ELSE [event_id |-> "e2", max_bookings |-> 2]]
    /\ bookings = <<>>
    /\ pc = [p \in Procs |-> "idle"]
    /\ req = [p \in Procs |-> NoReq]
    /\ booking = [p \in Procs |-> NoBooking]
    /\ result = [p \in Procs |-> "none"]
    /\ published = <<>>
    /\ emailQueue = {}
    /\ clock = 0
    /\ ReviewStoreInit
    /\ ListingStoreInit
    /\ FxStoreInit
    /\ WsStoreInit
    /\ DeleteStoreInit
    /\ CreateStoreInit
    /\ UpdateStoreInit

\* A request is handed to a handler.
Accept(p, r, l) ==
    /\ clock < MaxClock
    /\ clock' = clock + 1
    /\ req' = [req EXCEPT ![p] = r]
    /\ pc' = [pc EXCEPT ![p] = l]
    /\ result' = [result EXCEPT ![p] = "pending"]
    /\ UNCHANGED <<slots, bookings, booking, published, emailQueue, rvars, lvars, xvars>>

\* The handler returns or raises: back to idle with the outcome.
Finish(p, r) ==
    /\ pc' = [pc EXCEPT ![p] = "idle"]
    /\ result' = [result EXCEPT ![p] = r]
    /\ req' = [req EXCEPT ![p] = NoReq]
    /\ booking' = [booking EXCEPT ![p] = NoBooking]

Goto(p, l) ==
    /\ pc' = [pc EXCEPT ![p] = l]
    /\ UNCHANGED <<result, req, booking>>

\* _broadcast_slot_update(slot): slot.bookings is loaded here; redis_publish
\* logs and swallows a failing publish (ok = FALSE)
Broadcast(s, ok) ==
    published' = Append(published,
        [channel |-> channel(s), slot_id |-> s, remaining |-> remaining(s),
         is_full |-> is_full(s), delivered |-> ok])

\* ---------------------------------------------------------------- reserve
\* POST /events/{event_id}/bookings with a validated BookingCreate payload
StartReserve(p, ev, sl, nm, em) ==
    /\ pc[p] = "idle"
    /\ Accept(p, [kind |-> "reserve", event_id |-> ev, slot_id |-> sl, name |-> nm,
                  email |-> em, booking_id |-> NoBooking, status |-> CONFIRMED],
              "slot")

\* create_booking endpoint: slot = session.get(Slot, payload.slot_id)
ReserveSlotCheck(p) ==
    /\ pc[p] = "slot"
    /\ IF req[p].slot_id \notin SlotIds \/ slots[req[p].slot_id].event_id # req[p].event_id
          THEN Finish(p, "InvalidSlot")
          ELSE Goto(p, "dup")
    /\ UNCHANGED <<slots, bookings, published, emailQueue, clock, rvars, lvars, xvars>>

\* make_booking: if booking_exists(...) raise 409, checked after the capacity
ReserveDupCheckSwapped(p) ==
    /\ pc[p] = "dup"
    /\ IF booking_count(req[p].slot_id) >= slots[req[p].slot_id].max_bookings
          THEN Finish(p, "SlotFull")
          ELSE IF booking_exists(req[p].slot_id, req[p].email)
                  THEN Finish(p, "DuplicateBooking")
                  ELSE Goto(p, "count")
    /\ UNCHANGED <<slots, bookings, published, emailQueue, clock, rvars, lvars, xvars>>

\* make_booking: if booking_exists(...) raise 409
ReserveDupCheck(p) ==
    /\ pc[p] = "dup"
    /\ IF booking_exists(req[p].slot_id, req[p].email)
          THEN Finish(p, "DuplicateBooking")
          ELSE Goto(p, "count")
    /\ UNCHANGED <<slots, bookings, published, emailQueue, clock, rvars, lvars, xvars>>

\* make_booking whose capacity rejection also announces the full slot
ReserveCountCheckNotified(p) ==
    /\ pc[p] = "count"
    /\ IF booking_count(req[p].slot_id) >= slots[req[p].slot_id].max_bookings
          THEN /\ Finish(p, "SlotFull")
               /\ Broadcast(req[p].slot_id, TRUE)
          ELSE /\ Goto(p, "insert")
               /\ UNCHANGED published
    /\ UNCHANGED <<slots, bookings, emailQueue, clock, rvars, lvars, xvars>>

\* make_booking: if booking_count(...) >= slot.max_bookings raise 409
ReserveCountCheck(p) ==
    /\ pc[p] = "count"
    /\ IF booking_count(req[p].slot_id) >= slots[req[p].slot_id].max_bookings
          THEN Finish(p, "SlotFull")
          ELSE Goto(p, "insert")
    /\ UNCHANGED <<slots, bookings, published, emailQueue, clock, rvars, lvars, xvars>>

\* crud.create_booking: INSERT + COMMIT.  A row that violates uix_slot_email
\* raises IntegrityError, which no caller catches.
ReserveInsert(p) ==
    /\ pc[p] = "insert"
    /\ IF uix_slot_email(req[p].slot_id, req[p].email)
          THEN /\ Finish(p, "IntegrityError")
               /\ UNCHANGED bookings
          ELSE /\ bookings' = Append(bookings,
                      [slot_id |-> req[p].slot_id, name |-> req[p].name,
                       email |-> req[p].email, status |-> CONFIRMED,
                       booked_at |-> clock])
               /\ booking' = [booking EXCEPT ![p] = Len(bookings) + 1]
               /\ pc' = [pc EXCEPT ![p] = "email"]
               /\ UNCHANGED <<result, req>>
    /\ UNCHANGED <<slots, published, emailQueue, clock, rvars, lvars, xvars>>

\* make_booking: send_booking_email.delay(booking.id); it raises when the
\* broker cannot be reached (ok = FALSE)
ReserveEmail(p) ==
    /\ pc[p] = "email"
    /\ \E ok \in BOOLEAN :
          IF ok
             THEN /\ emailQueue' = emailQueue \cup {booking[p]}
                  /\ Goto(p, "publish")
             ELSE /\ Finish(p, "EnqueueError")
                  /\ UNCHANGED emailQueue
    /\ UNCHANGED <<slots, bookings, published, clock, rvars, lvars, xvars>>

\* make_booking over a redis_publish that lets the failure of the publish out
ReservePublishRaising(p) ==
    /\ pc[p] = "publish"
    /\ \E ok \in BOOLEAN :
          /\ Broadcast(req[p].slot_id, ok)
          /\ IF ok THEN Finish(p, "Booked") ELSE Finish(p, "PublishError")
    /\ UNCHANGED <<slots, bookings, emailQueue, clock, rvars, lvars, xvars>>

\* make_booking: _broadcast_slot_update(slot); return booking
ReservePublish(p) ==
    /\ pc[p] = "publish"
    /\ \E ok \in BOOLEAN : Broadcast(req[p].slot_id, ok)
    /\ Finish(p, "Booked")
    /\ UNCHANGED <<slots, bookings, emailQueue, clock, rvars, lvars, xvars>>

\* make_booking run without interruption on the current store
make_booking_outcome(s, e) ==
    IF booking_exists(s, e) THEN "DuplicateBooking"
    ELSE IF booking_count(s) >= slots[s].max_bookings THEN "SlotFull"
    ELSE IF uix_slot_email(s, e) THEN "IntegrityError"
    ELSE "Booked"

\* ---------------------------------------------------------------- cancel
\* PATCH /bookings/{booking_id} with a validated BookingUpdate payload; the
\* id is that of a stored booking or one that no booking has
StartCancel(p, st) ==
    /\ pc[p] = "idle"
    /\ \E bid \in BookingIds \cup {NoBooking} :
          Accept(p, [kind |-> "cancel", event_id |-> "e1", slot_id |-> NoSlot,
                     name |-> "ann", email |-> "a", booking_id |-> bid,
                     status |-> st], "cget")

\* the endpoint without the check of booking.status in services.cancel_booking
CancelGetUnchecked(p) ==
    /\ pc[p] = "cget"
    /\ IF req[p].status # CANCELLED
          THEN Finish(p, "OnlyCancellation")
          ELSE IF req[p].booking_id \notin BookingIds
                  THEN Finish(p, "NotFound")
                  ELSE /\ booking' = [booking EXCEPT ![p] = req[p].booking_id]
                       /\ pc' = [pc EXCEPT ![p] = "ccommit"]
                       /\ UNCHANGED <<result, req>>
    /\ UNCHANGED <<slots, bookings, published, emailQueue, clock, rvars, lvars, xvars>>

\* cancel_booking_endpoint: payload check, crud.get_booking, then the status
\* check of services.cancel_booking on the loaded booking
CancelGet(p) ==
    /\ pc[p] = "cget"
    /\ IF req[p].status # CANCELLED
          THEN Finish(p, "OnlyCancellation")
          ELSE IF req[p].booking_id \notin BookingIds
                  THEN Finish(p, "NotFound")
                  ELSE IF bookings[req[p].booking_id].status = CANCELLED
                          THEN Finish(p, "AlreadyCancelled")
                          ELSE /\ booking' = [booking EXCEPT ![p] = req[p].booking_id]
                               /\ pc' = [pc EXCEPT ![p] = "ccommit"]
                               /\ UNCHANGED <<result, req>>
    /\ UNCHANGED <<slots, bookings, published, emailQueue, clock, rvars, lvars, xvars>>

\* crud.cancel_booking called directly with a booking the caller has loaded
StartCrudCancel(p) ==
    /\ pc[p] = "idle"
    /\ \E bid \in BookingIds \cup {NoBooking} :
          Accept(p, [kind |-> "crud_cancel", event_id |-> "e1", slot_id |-> NoSlot,
                     name |-> "ann", email |-> "a", booking_id |-> bid,
                     status |-> CANCELLED], "xget")

\* crud.cancel_booking: if booking.status == CANCELLED: return booking
CrudCancelCheck(p) ==
    /\ pc[p] = "xget"
    /\ IF req[p].booking_id \notin BookingIds
          THEN Finish(p, "NotFound")
          ELSE IF bookings[req[p].booking_id].status = CANCELLED
                  THEN Finish(p, "Unchanged")
                  ELSE /\ booking' = [booking EXCEPT ![p] = req[p].booking_id]
                       /\ pc' = [pc EXCEPT ![p] = "ccommit"]
                       /\ UNCHANGED <<result, req>>
    /\ UNCHANGED <<slots, bookings, published, emailQueue, clock, rvars, lvars, xvars>>

\* crud.cancel_booking that also stamps the row with the time of the update
CancelCommitStamped(p) ==
    /\ pc[p] = "ccommit"
    /\ bookings' = [bookings EXCEPT ![booking[p]].status = CANCELLED,
                                    ![booking[p]].booked_at = clock]
    /\ IF req[p].kind = "cancel"
          THEN Goto(p, "cpublish")
          ELSE Finish(p, "Cancelled")
    /\ UNCHANGED <<slots, published, emailQueue, clock, rvars, lvars, xvars>>

\* crud.cancel_booking: booking.status = CANCELLED; add; commit; refresh
CancelCommit(p) ==
    /\ pc[p] = "ccommit"
    /\ bookings' = [bookings EXCEPT ![booking[p]].status = CANCELLED]
    /\ IF req[p].kind = "cancel"
          THEN Goto(p, "cpublish")
          ELSE Finish(p, "Cancelled")
    /\ UNCHANGED <<slots, published, emailQueue, clock, rvars, lvars, xvars>>

\* services.cancel_booking: _broadcast_slot_update(booking.slot); return booking
CancelPublish(p) ==
    /\ pc[p] = "cpublish"
    /\ \E ok \in BOOLEAN : Broadcast(bookings[booking[p]].slot_id, ok)
    /\ Finish(p, "Cancelled")
    /\ UNCHANGED <<slots, bookings, emailQueue, clock, rvars, lvars, xvars>>

\* ---------------------------------------------------------------- review handlers
\* A review request is handed to a handler.
RAccept(r, q, l) ==
    /\ rclock < MaxReviewOps
    /\ rclock' = rclock + 1
    /\ rreq' = [rreq EXCEPT ![r] = q]
    /\ rpc' = [rpc EXCEPT ![r] = l]
    /\ rresult' = [rresult EXCEPT ![r] = "pending"]
    /\ UNCHANGED <<reviews, events, rloc, bvars, lvars, xvars>>

RFinish(r, o) ==
    /\ rpc' = [rpc EXCEPT ![r] = "idle"]
    /\ rresult' = [rresult EXCEPT ![r] = o]
    /\ rreq' = [rreq EXCEPT ![r] = NoRReq]
    /\ rloc' = [rloc EXCEPT ![r] = NoRLoc]

RGoto(r, l) ==
    /\ rpc' = [rpc EXCEPT ![r] = l]
    /\ UNCHANGED <<rresult, rreq, rloc>>

\* POST /events/{event_id}/reviews with a validated ReviewCreate payload; the
\* booking id is that of a stored booking or one that no booking has
StartAddReview(r, ev, rt, cm) ==
    /\ rpc[r] = "idle"
    /\ \E bid \in BookingIds \cup {NoBooking} :
          RAccept(r, [kind |-> "add", event_id |-> ev, booking_id |-> bid,
                      review_id |-> NoReview, rating |-> rt, comment |-> cm],
                  "aget")

\* the endpoint and add_review without the check of booking.status
AddGetUnchecked(r) ==
    /\ rpc[r] = "aget"
    /\ LET b == rreq[r].booking_id
       IN  IF b \notin BookingIds \/ booking_event(b) # rreq[r].event_id
              THEN RFinish(r, "InvalidBooking")
              ELSE RGoto(r, "aexists")
    /\ UNCHANGED <<reviews, events, rclock, bvars, lvars, xvars>>

\* the endpoint without the comparison of the booking's event with the path
AddGetAnyEvent(r) ==
    /\ rpc[r] = "aget"
    /\ LET b == rreq[r].booking_id
       IN  IF b \notin BookingIds
              THEN RFinish(r, "InvalidBooking")
              ELSE IF bookings[b].status # CONFIRMED
                      THEN RFinish(r, "BookingNotConfirmed")
                      ELSE RGoto(r, "aexists")
    /\ UNCHANGED <<reviews, events, rclock, bvars, lvars, xvars>>

\* create_review endpoint: crud.get_booking and the check of the event; then
\* add_review's check of the status of the loaded booking
AddGet(r) ==
    /\ rpc[r] = "aget"
    /\ LET b == rreq[r].booking_id
       IN  IF b \notin BookingIds \/ booking_event(b) # rreq[r].event_id
              THEN RFinish(r, "InvalidBooking")
              ELSE IF bookings[b].status # CONFIRMED
                      THEN RFinish(r, "BookingNotConfirmed")
                      ELSE RGoto(r, "aexists")
    /\ UNCHANGED <<reviews, events, rclock, bvars, lvars, xvars>>

\* add_review: if review_exists(...) raise 409
AddExists(r) ==
    /\ rpc[r] = "aexists"
    /\ IF review_exists(rreq[r].booking_id)
          THEN RFinish(r, "ReviewAlreadyExists")
          ELSE RGoto(r, "acreate")
    /\ UNCHANGED <<reviews, events, rclock, bvars, lvars, xvars>>

\* crud.create_review: if review_exists(...) raise ValueError, which no
\* caller catches
CreateReviewCheck(r) ==
    /\ rpc[r] = "acreate"
    /\ IF review_exists(rreq[r].booking_id)
          THEN RFinish(r, "ValueError")
          ELSE RGoto(r, "ainsert")
    /\ UNCHANGED <<reviews, events, rclock, bvars, lvars, xvars>>

\* crud.create_review: INSERT + COMMIT; the table has no constraint on
\* booking_id other than the foreign key
CreateReviewInsert(r) ==
    /\ rpc[r] = "ainsert"
    /\ reviews' = Append(reviews,
          [event_id |-> booking_event(rreq[r].booking_id),
           booking_id |-> rreq[r].booking_id, rating |-> rreq[r].rating,
           comment |-> rreq[r].comment, created_at |-> rclock, present |-> TRUE])
    /\ rloc' = [rloc EXCEPT ![r] = [NoRLoc EXCEPT
                   !.review_id = Len(reviews) + 1,
                   !.event_id = booking_event(rreq[r].booking_id)]]
    /\ rpc' = [rpc EXCEPT ![r] = "rread"]
    /\ UNCHANGED <<rresult, rreq, events, rclock, bvars, lvars, xvars>>

\* PATCH /reviews/{review_id} with a validated ReviewUpdate payload
StartEditReview(r, rt, cm) ==
    /\ rpc[r] = "idle"
    /\ \E rid \in ReviewIds \cup {NoReview} :
          RAccept(r, [kind |-> "edit", event_id |-> "e1", booking_id |-> NoBooking,
                      review_id |-> rid, rating |-> rt, comment |-> cm],
                  "eget")

\* update_review endpoint: crud.get_review; then edit_review's check that a
\* change is supplied
EditGet(r) ==
    /\ rpc[r] = "eget"
    /\ LET i == rreq[r].review_id
       IN  IF ~get_review(i)
              THEN RFinish(r, "NotFound")
              ELSE IF rreq[r].rating = NoRating /\ rreq[r].comment = NoComment
                      THEN RFinish(r, "NoChanges")
                      ELSE /\ rloc' = [rloc EXCEPT ![r] = [NoRLoc EXCEPT
                                  !.review_id = i,
                                  !.event_id = reviews[i].event_id,
                                  !.rating = reviews[i].rating,
                                  !.comment = reviews[i].comment]]
                           /\ rpc' = [rpc EXCEPT ![r] = "eupdate"]
                           /\ UNCHANGED <<rresult, rreq>>
    /\ UNCHANGED <<reviews, events, rclock, bvars, lvars, xvars>>

\* crud.update_review that copies every supplied key, None included
EditUpdateOverwriting(r) ==
    /\ rpc[r] = "eupdate"
    /\ LET i == rloc[r].review_id
       IN  IF ~reviews[i].present
              THEN /\ RFinish(r, "RowGone")
                   /\ UNCHANGED reviews
              ELSE /\ reviews' = [reviews EXCEPT ![i].rating = rreq[r].rating,
                                                 ![i].comment = rreq[r].comment]
                   /\ RGoto(r, "rread")
    /\ UNCHANGED <<events, rclock, bvars, lvars, xvars>>

\* crud.update_review: setattr of the keys that are not None on the loaded
\* review; add; commit; refresh.  The UPDATE carries the columns whose value
\* differs from the loaded one; when the row has been deleted meanwhile the
\* flush or the refresh raises.
EditUpdate(r) ==
    /\ rpc[r] = "eupdate"
    /\ LET i == rloc[r].review_id
           rt == IF rreq[r].rating # NoRating THEN rreq[r].rating ELSE rloc[r].rating
           cm == IF rreq[r].comment # NoComment THEN rreq[r].comment ELSE rloc[r].comment
       IN  IF ~reviews[i].present
              THEN /\ RFinish(r, "RowGone")
                   /\ UNCHANGED reviews
              ELSE /\ reviews' = [reviews EXCEPT
                          ![i].rating = IF rt # rloc[r].rating THEN rt ELSE @,
                          ![i].comment = IF cm # rloc[r].comment THEN cm ELSE @]
                   /\ RGoto(r, "rread")
    /\ UNCHANGED <<events, rclock, bvars, lvars, xvars>>

\* DELETE /reviews/{review_id}
StartDeleteReview(r) ==
    /\ rpc[r] = "idle"
    /\ \E rid \in ReviewIds \cup {NoReview} :
          RAccept(r, [kind |-> "delete", event_id |-> "e1", booking_id |-> NoBooking,
                      review_id |-> rid, rating |-> NoRating, comment |-> NoComment],
                  "dget")

\* delete_review endpoint: crud.get_review
DeleteGet(r) ==
    /\ rpc[r] = "dget"
    /\ LET i == rreq[r].review_id
       IN  IF ~get_review(i)
              THEN RFinish(r, "NotFound")
              ELSE /\ rloc' = [rloc EXCEPT ![r] = [NoRLoc EXCEPT
                          !.review_id = i, !.event_id = reviews[i].event_id]]
                   /\ rpc' = [rpc EXCEPT ![r] = "ddelete"]
                   /\ UNCHANGED <<rresult, rreq>>
    /\ UNCHANGED <<reviews, events, rclock, bvars, lvars, xvars>>

\* crud.delete_review that returns after the commit
DeleteCommitNoRecompute(r) ==
    /\ rpc[r] = "ddelete"
    /\ reviews' = [reviews EXCEPT ![rloc[r].review_id].present = FALSE]
    /\ RFinish(r, "Deleted")
    /\ UNCHANGED <<events, rclock, bvars, lvars, xvars>>

\* crud.delete_review: session.delete(review); commit
DeleteCommit(r) ==
    /\ rpc[r] = "ddelete"
    /\ reviews' = [reviews EXCEPT ![rloc[r].review_id].present = FALSE]
    /\ RGoto(r, "rread")
    /\ UNCHANGED <<events, rclock, bvars, lvars, xvars>>

\* recompute_event_rating: the SELECT of avg and count
RecomputeRead(r) ==
    /\ rpc[r] = "rread"
    /\ rloc' = [rloc EXCEPT ![r].avg = avg_rating(rloc[r].event_id),
                            ![r].cnt = count_reviews(rloc[r].event_id)]
    /\ rpc' = [rpc EXCEPT ![r] = "rwrite"]
    /\ UNCHANGED <<rresult, rreq, reviews, events, rclock, bvars, lvars, xvars>>

\* a direct call of recompute_event_rating for event e
StartRecompute(r, e) ==
    /\ rpc[r] = "idle"
    /\ rclock < MaxReviewOps
    /\ rclock' = rclock + 1
    /\ rreq' = [rreq EXCEPT ![r] = [NoRReq EXCEPT !.kind = "recompute", !.event_id = e]]
    /\ rloc' = [rloc EXCEPT ![r] = [NoRLoc EXCEPT !.event_id = e]]
    /\ rpc' = [rpc EXCEPT ![r] = "rread"]
    /\ rresult' = [rresult EXCEPT ![r] = "pending"]
    /\ UNCHANGED <<reviews, events, bvars, lvars, xvars>>

\* an incremental update: the count read is added to the stored one
RecomputeWriteIncremental(r) ==
    /\ rpc[r] = "rwrite"
    /\ events' = [events EXCEPT ![rloc[r].event_id] =
                     [rating_avg |-> rloc[r].avg,
                      rating_count |-> events[rloc[r].event_id].rating_count + rloc[r].cnt]]
    /\ RFinish(r, CASE rreq[r].kind = "add" -> "Reviewed"
                    [] rreq[r].kind = "edit" -> "Edited"
                    [] rreq[r].kind = "recompute" -> "Recomputed"
                    [] OTHER -> "Deleted")
    /\ UNCHANGED <<reviews, rclock, bvars, lvars, xvars>>

\* recompute_event_rating: the UPDATE of the event row + COMMIT; the handler
\* returns
RecomputeWrite(r) ==
    /\ rpc[r] = "rwrite"
    /\ events' = [events EXCEPT ![rloc[r].event_id] =
                     [rating_avg |-> rloc[r].avg, rating_count |-> rloc[r].cnt]]
    /\ RFinish(r, CASE rreq[r].kind = "add" -> "Reviewed"
                    [] rreq[r].kind = "edit" -> "Edited"
                    [] rreq[r].kind = "recompute" -> "Recomputed"
                    [] OTHER -> "Deleted")
    /\ UNCHANGED <<reviews, rclock, bvars, lvars, xvars>>

\* ---------------------------------------------------------------- system
Next ==
    \/ \E p \in Procs, x \in ReserveTargets, nm \in Names, em \in Emails :
          StartReserve(p, x[1], x[2], nm, em)
    \/ \E p \in Procs : ReserveSlotCheck(p)
    \/ \E p \in Procs : ReserveDupCheck(p)
    \/ \E p \in Procs : ReserveCountCheck(p)
    \/ \E p \in Procs : ReserveInsert(p)
    \/ \E p \in Procs : ReserveEmail(p)
    \/ \E p \in Procs : ReservePublish(p)
    \/ \E p \in Procs, st \in BookingStatus : StartCancel(p, st)
    \/ \E p \in Procs : CancelGet(p)
    \/ \E p \in Procs : StartCrudCancel(p)
    \/ \E p \in Procs : CrudCancelCheck(p)
    \/ \E p \in Procs : CancelCommit(p)
    \/ \E p \in Procs : CancelPublish(p)

Spec == Init /\ [][Next]_vars

\* ---------------------------------------------------------------- broadcast, step by step
\* _broadcast_slot_update(slot): the payload is built from slot.remaining and
\* slot.is_full, whose first use loads slot.bookings with a SELECT (in
\* cancel_booking after booking.slot is loaded)
BroadcastLoad(p) ==
    /\ pc[p] \in {"publish", "cpublish"}
    /\ payload[p] = NoPayload
    /\ LET s == IF pc[p] = "publish" THEN req[p].slot_id
                ELSE bookings[booking[p]].slot_id
       IN  payload' = [payload EXCEPT ![p] =
                         [slot_id |-> s, remaining |-> remaining(s),
                          is_full |-> is_full(s)]]
    /\ UNCHANGED <<bvars, rvars, lvars, fvars, wvars, dvars, cvars>>

\* _broadcast_slot_update(slot): redis_publish(channel, json.dumps(payload)),
\* which logs and swallows a failing publish (ok = FALSE); the handler returns
BroadcastPublish(p) ==
    /\ pc[p] \in {"publish", "cpublish"}
    /\ payload[p] # NoPayload
    /\ \E ok \in BOOLEAN :
          published' = Append(published,
              [channel |-> channel(payload[p].slot_id), slot_id |-> payload[p].slot_id,
               remaining |-> payload[p].remaining, is_full |-> payload[p].is_full,
               delivered |-> ok])
    /\ Finish(p, IF pc[p] = "publish" THEN "Booked" ELSE "Cancelled")
    /\ payload' = [payload EXCEPT ![p] = NoPayload]
    /\ UNCHANGED <<slots, bookings, emailQueue, clock, rvars, lvars,
                   fvars, wvars, dvars, cvars>>

BroadcastNext ==
    \/ \E p \in Procs, x \in ReserveTargets, nm \in Names, em \in Emails :
          StartReserve(p, x[1], x[2], nm, em)
    \/ \E p \in Procs : ReserveSlotCheck(p)
    \/ \E p \in Procs : ReserveDupCheck(p)
    \/ \E p \in Procs : ReserveCountCheck(p)
    \/ \E p \in Procs : ReserveInsert(p)
    \/ \E p \in Procs : ReserveEmail(p)
    \/ \E p \in Procs, st \in BookingStatus : StartCancel(p, st)
    \/ \E p \in Procs : CancelGet(p)
    \/ \E p \in Procs : CancelCommit(p)
    \/ \E p \in Procs : BroadcastLoad(p)
    \/ \E p \in Procs : BroadcastPublish(p)

BroadcastSpec == Init /\ [][BroadcastNext]_vars

\* ---------------------------------------------------------------- review system
\* both visitors hold a CONFIRMED booking on s2: the store after the
\* reserves of a and of b have returned
BookedTwice ==
    /\ slots = [s \in SlotIds |->
                  IF s = "s1" THEN [event_id |-> "e1", max_bookings |-> 1]
                              ELSE [event_id |-> "e2", max_bookings |-> 2]]
    /\ bookings = <<[slot_id |-> "s2", name |-> "ann", email |-> "a",
                     status |-> CONFIRMED, booked_at |-> 1],
                    [slot_id |-> "s2", name |-> "ann", email |-> "b",
                     status |-> CONFIRMED, booked_at |-> 2]>>
    /\ pc = [p \in Procs |-> "idle"]
    /\ req = [p \in Procs |-> NoReq]
    /\ booking = [p \in Procs |-> NoBooking]
    /\ result = [p \in Procs |-> "Booked"]
    /\ published = <<[channel |-> <<"event", "e2">>, slot_id |-> "s2",
                      remaining |-> 1, is_full |-> FALSE, delivered |-> TRUE],
                     [channel |-> <<"event", "e2">>, slot_id |-> "s2",
                      remaining |-> 0, is_full |-> TRUE, delivered |-> TRUE]>>
    /\ emailQueue = {1, 2}
    /\ clock = 2

ReviewInit ==
    /\ BookedTwice
    /\ ReviewStoreInit
    /\ ListingStoreInit
    /\ FxStoreInit
    /\ WsStoreInit
    /\ DeleteStoreInit
    /\ CreateStoreInit
    /\ UpdateStoreInit

\* the review requests served by the handlers R, and the cancel requests
ReviewStep(R) ==
    \/ \E r \in R, ev \in EventIds, rt \in Ratings : StartAddReview(r, ev, rt, "x")
    \/ \E r \in R : AddGet(r)
    \/ \E r \in R : AddExists(r)
    \/ \E r \in R : CreateReviewCheck(r)
    \/ \E r \in R : CreateReviewInsert(r)
    \/ \E r \in R, rt \in Ratings \cup {NoRating}, cm \in {NoComment, "y"} :
          StartEditReview(r, rt, cm)
    \/ \E r \in R : EditGet(r)
    \/ \E r \in R : EditUpdate(r)
    \/ \E r \in R : StartDeleteReview(r)
    \/ \E r \in R : DeleteGet(r)
    \/ \E r \in R : DeleteCommit(r)
    \/ \E r \in R : RecomputeRead(r)
    \/ \E r \in R : RecomputeWrite(r)
    \/ \E p \in Cancellers : StartCancel(p, CANCELLED)
    \/ \E p \in Cancellers : CancelGet(p)
    \/ \E p \in Cancellers : CancelCommit(p)
    \/ \E p \in Cancellers : CancelPublish(p)

ReviewNext == ReviewStep(Reviewers)

\* review requests in flight together
ReviewSpec == ReviewInit /\ [][ReviewNext]_vars

ReviewSeqNext == ReviewStep({"r1"})

\* review requests served one at a time
ReviewSeqSpec == ReviewInit /\ [][ReviewSeqNext]_vars

RecomputeNext ==
    \/ ReviewStep({"r1"})
    \/ \E e \in EventIds : StartRecompute("r1", e)

\* review requests and direct calls of recompute_event_rating, one at a time
RecomputeSpec == ReviewInit /\ [][RecomputeNext]_vars

\* ---------------------------------------------------------------- listing
Titles == {<<"A", "b">>, <<"b", "_">>, <<"b">>}
Descriptions == {<<"c">>}
HostNames == {<<"c">>, <<"a">>}
Prices == {0, 1}
SortOptions == {"recent", "price", "rating", "popularity"}
\* search terms: absent, a letter, an upper-case letter, the underscore
Searches == {NoSearch, <<"a">>, <<"B">>, <<"_">>}

EventRows == [title : Titles, description : Descriptions, host_name : HostNames,
              category : Categories, price_minor : Prices]

\* the EventFilter of the query parameters q is constructed: page >= 1,
\* size <= 100, a price is absent or >= 0, price_max is not below price_min
EventFilterValid(q) ==
    /\ q.page >= 1
    /\ q.size <= MaxSize
    /\ q.price_min = NoPrice \/ q.price_min >= 0
    /\ q.price_max = NoPrice \/ q.price_max >= 0
    /\ (q.price_min # NoPrice /\ q.price_max # NoPrice) => q.price_max >= q.price_min

\* the validated filters of the first page of the default size
EventFilters ==
    {f \in [search : Searches, category : Categories \cup {NoCategory},
            price_min : Prices \cup {NoPrice}, price_max : Prices \cup {NoPrice},
            sort : SortOptions, page : {1}, size : {DefaultSize}] :
        EventFilterValid(f)}

\* str.lower() and SQL lower() on the letters in use
LowerChar(c) == IF c = "A" THEN "a" ELSE IF c = "B" THEN "b" ELSE c

lower(s) == [i \in DOMAIN s |-> LowerChar(s[i])]

\* SQL LIKE: % stands for any run of characters, _ for any one character
RECURSIVE like(_, _)
like(s, p) ==
    IF p = <<>> THEN s = <<>>
    ELSE IF Head(p) = "%"
            THEN like(s, Tail(p)) \/ (s # <<>> /\ like(Tail(s), p))
            ELSE /\ s # <<>>
                 /\ Head(p) = "_" \/ Head(p) = Head(s)
                 /\ like(Tail(s), Tail(p))

\* term = f"%{filters.search.lower()}%"
term(search) == <<"%">> \o lower(search) \o <<"%">>

\* the bookings popularity counts: CONFIRMED and booked in the last 30 days
RecentConfirmed ==
    {i \in BookingIds : /\ bookings[i].status = CONFIRMED
                        /\ bookings[i].booked_at >= clock - ThirtyDays}

\* popularity_sub: such bookings per event, one row for each event that has
\* any
popularity_sub ==
    {[pop_event_id |-> e,
      pop_count |-> Cardinality({i \in RecentConfirmed :
                                    slots[bookings[i].slot_id].event_id = e})] :
        e \in {slots[bookings[i].slot_id].event_id : i \in RecentConfirmed}}

\* _apply_sort: ORDER BY keeps the rows; "popularity" outer-joins
\* popularity_sub first, an event without a row there keeps one row with a
\* null pop_count (0 here)
apply_sort(ids, sort) ==
    IF sort = "popularity"
       THEN {[id |-> e, pop_count |-> c] :
                <<e, c>> \in {<<e, 0>> : e \in {x \in ids :
                                 \A q \in popularity_sub : q.pop_event_id # x}}
                             \cup {<<q.pop_event_id, q.pop_count>> :
                                      q \in {x \in popularity_sub : x.pop_event_id \in ids}}}
       ELSE {[id |-> e, pop_count |-> 0] : e \in ids}

\* rating_avg x is above y: a null one (count 0) is above none
AvgAbove(x, y) ==
    /\ x.den # 0
    /\ y.den = 0 \/ x.num * y.den > y.num * x.den

\* the ORDER BY of _apply_sort puts row a before row b
Before(a, b, sort) ==
    LET newer == catalogue[a.id].created_at > catalogue[b.id].created_at
    IN  CASE sort = "price" -> catalogue[a.id].price_minor < catalogue[b.id].price_minor
          [] sort = "rating" ->
                \/ AvgAbove(events[a.id].rating_avg, events[b.id].rating_avg)
                \/ /\ ~AvgAbove(events[b.id].rating_avg, events[a.id].rating_avg)
                   /\ newer
          [] sort = "popularity" ->
                \/ a.pop_count > b.pop_count
                \/ a.pop_count = b.pop_count /\ newer
          [] OTHER -> newer

\* the sequences the rows may come in: rows that the ORDER BY does not tell
\* apart come in any order
order_by(rows, sort) ==
    {o \in [1..Cardinality(rows) -> rows] :
        /\ \A i, j \in DOMAIN o : i # j => o[i] # o[j]
        /\ \A i, j \in DOMAIN o : i < j => ~Before(o[j], o[i], sort)}

\* build_event_query: the WHERE clauses, then _apply_sort; the rows of the
\* statement
build_event_stmt(f) ==
    LET searched == IF f.search # NoSearch
                       THEN {e \in EventIds :
                               \/ like(lower(catalogue[e].title), term(f.search))
                               \/ like(lower(catalogue[e].description), term(f.search))
                               \/ like(lower(catalogue[e].host_name), term(f.search))}
                       ELSE EventIds
        incat == IF f.category # NoCategory
                    THEN {e \in searched : catalogue[e].category = f.category}
                    ELSE searched
        above == IF f.price_min # NoPrice
                    THEN {e \in incat : catalogue[e].price_minor >= f.price_min}
                    ELSE incat
        below == IF f.price_max # NoPrice
                    THEN {e \in above : catalogue[e].price_minor <= f.price_max}
                    ELSE above
    IN  apply_sort(below, f.sort)

\* count_stmt: select count(*) from the statement as a subquery
count_stmt(f) == Cardinality(build_event_stmt(f))

\* build_event_query: the ids of the rows of the statement
build_event_query(f) == {r.id : r \in build_event_stmt(f)}

\* build_event_query called with a filter; a listing changes nothing it reads,
\* so one request is served from each store
BuildEventQuery(f) ==
    /\ listing = NoListing
    /\ filters' = f
    /\ \E o \in order_by(build_event_stmt(f), f.sort) :
           listing' = [status |-> "ok", ids |-> build_event_query(f),
                       total |-> count_stmt(f), order |-> [i \in DOMAIN o |-> o[i].id],
                       items |-> <<>>]
    /\ UNCHANGED <<catalogue, bvars, rvars, xvars>>

\* GET /events with the query parameters f: the EventFilter of the endpoint
\* is constructed; then crud.list_events, where the argument EventFilter(...)
\* of its call of build_event_query is evaluated first, and crud/events.py
\* binds no name EventFilter: the call raises NameError for every request
ListEvents(f) ==
    /\ listing = NoListing
    /\ filters' = f
    /\ listing' = [NoListing EXCEPT
                      !.status = IF EventFilterValid(f) THEN "NameError"
                                                        ELSE "ValidationError"]
    /\ UNCHANGED <<catalogue, bvars, rvars, xvars>>

\* any two stored events, e2 created after e1, the bookings of ReviewInit,
\* no listing yet
ListInit ==
    /\ BookedTwice
    /\ ReviewStoreInit
    /\ \E c \in [EventIds -> EventRows] :
           catalogue = [e \in EventIds |->
                          [title |-> c[e].title, description |-> c[e].description,
                           host_name |-> c[e].host_name, category |-> c[e].category,
                           price_minor |-> c[e].price_minor,
                           created_at |-> IF e = "e1" THEN 1 ELSE 2]]
    /\ filters = NoFilter
    /\ listing = NoListing
    /\ FxStoreInit
    /\ WsStoreInit
    /\ DeleteStoreInit
    /\ CreateStoreInit
    /\ UpdateStoreInit

ListNext ==
    \/ \E f \in EventFilters : BuildEventQuery(f)
    \/ \E f \in EventFilters : ListEvents(f)

ListSpec == ListInit /\ [][ListNext]_vars

\* ---------------------------------------------------------------- paging
\* the query parameters of GET /events: pages and sizes in and out of range
PageRequests ==
    [search : {NoSearch}, category : {NoCategory, "Design"},
     price_min : {NoPrice}, price_max : {NoPrice}, sort : SortOptions,
     page : {0, 1, 2}, size : {-1, 0, 1, DefaultSize, MaxSize, MaxSize + 1}]

\* the rows a booking table of up to MaxStored bookings may hold: no two rows
\* with the same slot and email, booked 35 days or one day before now
StoredRows ==
    [slot_id : SlotIds, name : Names, email : Emails, status : BookingStatus,
     booked_at : {5, 39}]

StoredBookings ==
    {b \in UNION {[1..n -> StoredRows] : n \in 0..MaxStored} :
        \A i, j \in DOMAIN b :
            (i # j) => (b[i].slot_id # b[j].slot_id \/ b[i].email # b[j].email)}

\* each slot belongs to either event, the events are created at either time
\* and e2 is of either category
PageInit ==
    /\ \E ev \in [SlotIds -> EventIds] :
           slots = [x \in SlotIds |-> [event_id |-> ev[x], max_bookings |-> 2]]
    /\ bookings \in StoredBookings
    /\ pc = [p \in Procs |-> "idle"]
    /\ req = [p \in Procs |-> NoReq]
    /\ booking = [p \in Procs |-> NoBooking]
    /\ result = [p \in Procs |-> "none"]
    /\ published = <<>>
    /\ emailQueue = {}
    /\ clock = 40
    /\ ReviewStoreInit
    /\ \E ct \in [EventIds -> {1, 2}], cat \in Categories :
           catalogue = [e \in EventIds |->
                          [title |-> <<"b">>, description |-> <<"c">>,
                           host_name |-> <<"c">>,
                           category |-> IF e = "e1" THEN "Design" ELSE cat,
                           price_minor |-> 0, created_at |-> ct[e]]]
    /\ filters = NoFilter
    /\ listing = NoListing
    /\ FxStoreInit
    /\ WsStoreInit
    /\ DeleteStoreInit
    /\ CreateStoreInit
    /\ UpdateStoreInit

PageNext ==
    \/ \E f \in {q \in PageRequests : q.page = 1 /\ q.size = DefaultSize} :
          BuildEventQuery(f)
    \/ \E f \in PageRequests : ListEvents(f)

PageSpec == PageInit /\ [][PageNext]_vars

\* ---------------------------------------------------------------- fx handlers
\* get_rates: the cached table when one is read, else the table of
\* _fetch_rates_remote (FallbackRates when the request fails), which is then
\* cached unless the write fails
GetRates(force_refresh, read_ok, write_ok) ==
    IF ~force_refresh /\ read_ok /\ fxCache # NoRates
    THEN /\ rates' = fxCache
         /\ fxFetch' = "cached"
         /\ UNCHANGED <<fxCache, converted, fxCall, bvars, rvars, lvars, wvars, dvars, cvars, uvars>>
    ELSE \E t \in RemoteTables \cup {FallbackRates} :
             /\ rates' = t
             /\ fxFetch' \in (IF t = FallbackRates THEN {"failed"} ELSE {"remote"})
             /\ fxCache' = IF write_ok THEN t ELSE fxCache
             /\ UNCHANGED <<converted, fxCall, bvars, rvars, lvars, wvars, dvars, cvars, uvars>>

\* the cached table reaches its time to live
CacheExpire ==
    /\ fxCache # NoRates
    /\ fxCache' = NoRates
    /\ UNCHANGED <<rates, fxFetch, converted, fxCall, bvars, rvars, lvars, wvars, dvars, cvars, uvars>>

\* a call of convert_minor with the caller's table
ConvertMinor(amount_minor, from_currency, to_currency) ==
    LET out == convert_minor(amount_minor, from_currency, to_currency, rates)
    IN  /\ converted' = [amount_minor |-> amount_minor, from_currency |-> from_currency,
                         to_currency |-> to_currency, rates |-> rates, fetch |-> fxFetch,
                         status |-> out.status, value |-> out.value]
        /\ UNCHANGED <<fxCache, rates, fxFetch, fxCall, bvars, rvars, lvars, wvars, dvars, cvars, uvars>>

\* the caller starts with any table
FxInit ==
    /\ BookedTwice
    /\ ReviewStoreInit
    /\ ListingStoreInit
    /\ fxCache = NoRates
    /\ rates \in RateTables
    /\ fxFetch = "given"
    /\ converted = NoConversion
    /\ fxCall = [g \in FxCallers |-> NoCall]
    /\ WsStoreInit
    /\ DeleteStoreInit
    /\ CreateStoreInit
    /\ UpdateStoreInit

FxNext ==
    \/ \E f \in BOOLEAN, r \in BOOLEAN, w \in BOOLEAN : GetRates(f, r, w)
    \/ CacheExpire
    \/ \E a \in Amounts, f \in Currencies, t \in Currencies : ConvertMinor(a, f, t)

FxSpec == FxInit /\ [][FxNext]_vars

\* ---------------------------------------------------------------- get_rates, step by step
\* the calls of get_rates of several workers: the cache read, the remote
\* request and the cache write are separate round trips
RatesRest == <<rates, fxFetch, converted, bvars, rvars, lvars, wvars, dvars, cvars, uvars>>

\* get_rates(force_refresh) is called: by a handler, or with force_refresh by
\* the refresh_rates task
StartGetRates(g, force_refresh) ==
    /\ fxCall[g].pc = "idle"
    /\ fxCall' = [fxCall EXCEPT ![g] =
                    [NoCall EXCEPT !.pc = IF force_refresh THEN "fetch" ELSE "read",
                                   !.force_refresh = force_refresh]]
    /\ UNCHANGED <<fxCache, RatesRest>>

\* cached = redis_conn.get(REDIS_KEY): returned when there is one; a failing
\* read is logged and the call goes on to fetch
RatesRead(g, read_ok) ==
    /\ fxCall[g].pc = "read"
    /\ fxCall' = [fxCall EXCEPT ![g] =
                    IF read_ok /\ fxCache # NoRates
                    THEN [@ EXCEPT !.pc = "idle", !.rates = fxCache, !.fetch = "cached"]
                    ELSE [@ EXCEPT !.pc = "fetch", !.read_ok = read_ok]]
    /\ UNCHANGED <<fxCache, RatesRest>>

\* rates = _fetch_rates_remote(): the answer of the service, FallbackRates when
\* the request fails
RatesFetch(g) ==
    /\ fxCall[g].pc = "fetch"
    /\ \E t \in RemoteTables \cup {FallbackRates} :
           fxCall' = [fxCall EXCEPT ![g] =
                        [@ EXCEPT !.pc = "write", !.rates = t,
                                  !.fetch = IF t = FallbackRates THEN "failed"
                                            ELSE "remote"]]
    /\ UNCHANGED <<fxCache, RatesRest>>

\* a write that does not let the fallback table of a failed fetch replace a
\* cached table
RatesWriteKeepingCached(g, write_ok) ==
    /\ fxCall[g].pc = "write"
    /\ fxCache' = IF write_ok /\ ~(fxCall[g].fetch = "failed" /\ fxCache # NoRates)
                  THEN fxCall[g].rates ELSE fxCache
    /\ fxCall' = [fxCall EXCEPT ![g] = [@ EXCEPT !.pc = "idle", !.write_ok = write_ok]]
    /\ UNCHANGED RatesRest

\* redis_conn.setex(REDIS_KEY, ttl, json.dumps(rates)); return rates.  A
\* failing write is logged and leaves the cache as it was
RatesWrite(g, write_ok) ==
    /\ fxCall[g].pc = "write"
    /\ fxCache' = IF write_ok THEN fxCall[g].rates ELSE fxCache
    /\ fxCall' = [fxCall EXCEPT ![g] = [@ EXCEPT !.pc = "idle", !.write_ok = write_ok]]
    /\ UNCHANGED RatesRest

\* the cached table reaches its time to live while calls are in flight
RatesExpire ==
    /\ fxCache # NoRates
    /\ fxCache' = NoRates
    /\ UNCHANGED <<fxCall, RatesRest>>

RatesInit ==
    /\ BookedTwice
    /\ ReviewStoreInit
    /\ ListingStoreInit
    /\ FxStoreInit
    /\ WsStoreInit
    /\ DeleteStoreInit
    /\ CreateStoreInit
    /\ UpdateStoreInit

RatesNext ==
    \/ \E g \in FxCallers, f \in BOOLEAN : StartGetRates(g, f)
    \/ \E g \in FxCallers, ok \in BOOLEAN : RatesRead(g, ok)
    \/ \E g \in FxCallers : RatesFetch(g)
    \/ \E g \in FxCallers, ok \in BOOLEAN : RatesWrite(g, ok)
    \/ RatesExpire

RatesSpec == RatesInit /\ [][RatesNext]_vars

\* ---------------------------------------------------------------- websocket handlers
WsGoto(c, l) == wsPc' = [wsPc EXCEPT ![c] = l]

\* ws.accept(): the handshake of a client that is gone raises before the try
WsAccept(c, e) ==
    /\ wsPc[c] = "new"
    /\ wsEvent' = [wsEvent EXCEPT ![c] = e]
    /\ WsGoto(c, IF wsClient[c] = "open" THEN "subscribe" ELSE "done")
    /\ UNCHANGED <<wsClient, wsSub, wsPing, wsInbox, wsReceived, wsPublished,
                   bvars, rvars, lvars, fvars, dvars, cvars, uvars>>

\* pubsub.subscribe(channel)
WsSubscribe(c) ==
    /\ wsPc[c] = "subscribe"
    /\ wsSub' = [wsSub EXCEPT ![c] = TRUE]
    /\ WsGoto(c, "spawn")
    /\ UNCHANGED <<wsClient, wsEvent, wsPing, wsInbox, wsReceived, wsPublished,
                   bvars, rvars, lvars, fvars, dvars, cvars, uvars>>

\* ping_task = asyncio.create_task(_ping())
WsSpawnPing(c) ==
    /\ wsPc[c] = "spawn"
    /\ wsPing' = [wsPing EXCEPT ![c] = "running"]
    /\ WsGoto(c, "listen")
    /\ UNCHANGED <<wsClient, wsEvent, wsSub, wsInbox, wsReceived, wsPublished,
                   bvars, rvars, lvars, fvars, dvars, cvars, uvars>>

\* _ping after its sleep: the send to a client that is gone raises and the
\* task ends; to an open client the heartbeat text, two lone surrogates, is
\* either passed on or refused by the transport's encoder, which ends the task
WsPingTick(c) ==
    /\ wsPing[c] = "running"
    /\ \/ /\ wsClient[c] = "open"
          /\ UNCHANGED wsPing
       \/ wsPing' = [wsPing EXCEPT ![c] = "done"]
    /\ UNCHANGED <<wsClient, wsPc, wsEvent, wsSub, wsInbox, wsReceived, wsPublished,
                   bvars, rvars, lvars, fvars, dvars, cvars, uvars>>

\* the pub/sub channel of an event: f"event:{event_id}"
event_channel(e) == <<"event", e>>

\* a publish that reaches every subscribed connection, whatever its channel
WsPublishToAll(e) ==
    /\ wsPublished < MaxPublish
    /\ wsPublished' = wsPublished + 1
    /\ wsInbox' = [c \in Conns |->
                     IF wsSub[c]
                     THEN Append(wsInbox[c], [event_id |-> e, n |-> wsPublished + 1])
                     ELSE wsInbox[c]]
    /\ UNCHANGED <<wsClient, wsPc, wsEvent, wsSub, wsPing, wsReceived,
                   bvars, rvars, lvars, fvars, dvars, cvars, uvars>>

\* redis_publish on the channel of event e, by _broadcast_slot_update for a
\* slot of e, reaches the connections subscribed to that channel
WsPublish(e) ==
    /\ wsPublished < MaxPublish
    /\ wsPublished' = wsPublished + 1
    /\ wsInbox' = [c \in Conns |->
                     IF wsSub[c] /\ event_channel(wsEvent[c]) = event_channel(e)
                     THEN Append(wsInbox[c], [event_id |-> e, n |-> wsPublished + 1])
                     ELSE wsInbox[c]]
    /\ UNCHANGED <<wsClient, wsPc, wsEvent, wsSub, wsPing, wsReceived,
                   bvars, rvars, lvars, fvars, dvars, cvars, uvars>>

\* one round of `async for message in pubsub.listen()`: the message is sent
\* to the client; the send to a client that is gone raises and the handler
\* goes to its finally clause
WsListen(c) ==
    /\ wsPc[c] = "listen"
    /\ wsInbox[c] # <<>>
    /\ wsInbox' = [wsInbox EXCEPT ![c] = Tail(@)]
    /\ IF wsClient[c] = "open"
       THEN /\ wsReceived' = [wsReceived EXCEPT ![c] = Append(@, Head(wsInbox[c]))]
            /\ UNCHANGED wsPc
       ELSE /\ WsGoto(c, "close")
            /\ UNCHANGED wsReceived
    /\ UNCHANGED <<wsClient, wsEvent, wsSub, wsPing, wsPublished,
                   bvars, rvars, lvars, fvars, dvars, cvars, uvars>>

\* the client closes its connection
WsClientClose(c) ==
    /\ wsClient[c] = "open"
    /\ wsClient' = [wsClient EXCEPT ![c] = "closed"]
    /\ UNCHANGED <<wsPc, wsEvent, wsSub, wsPing, wsInbox, wsReceived, wsPublished,
                   bvars, rvars, lvars, fvars, dvars, cvars, uvars>>

\* finally: ws.close() on a connection whose send has failed either passes or
\* raises RuntimeError, and then the rest of the clause is not run
WsClose(c) ==
    /\ wsPc[c] = "close"
    /\ \/ WsGoto(c, "unsubscribe")
       \/ WsGoto(c, "done")
    /\ UNCHANGED <<wsClient, wsEvent, wsSub, wsPing, wsInbox, wsReceived, wsPublished,
                   bvars, rvars, lvars, fvars, dvars, cvars, uvars>>

\* finally: pubsub.unsubscribe(channel); pubsub.close()
WsUnsubscribe(c) ==
    /\ wsPc[c] = "unsubscribe"
    /\ wsSub' = [wsSub EXCEPT ![c] = FALSE]
    /\ wsInbox' = [wsInbox EXCEPT ![c] = <<>>]
    /\ WsGoto(c, "cancel")
    /\ UNCHANGED <<wsClient, wsEvent, wsPing, wsReceived, wsPublished,
                   bvars, rvars, lvars, fvars, dvars, cvars, uvars>>

\* finally: ping_task.cancel() unless the task is done
WsCancelPing(c) ==
    /\ wsPc[c] = "cancel"
    /\ wsPing' = [wsPing EXCEPT ![c] = IF @ = "running" THEN "cancelled" ELSE @]
    /\ WsGoto(c, "done")
    /\ UNCHANGED <<wsClient, wsEvent, wsSub, wsInbox, wsReceived, wsPublished,
                   bvars, rvars, lvars, fvars, dvars, cvars, uvars>>

WsInit ==
    /\ BookedTwice
    /\ ReviewStoreInit
    /\ ListingStoreInit
    /\ FxStoreInit
    /\ WsConnect(Conns)
    /\ DeleteStoreInit
    /\ CreateStoreInit
    /\ UpdateStoreInit

\* the steps of the server for connection c
WsServer(c) ==
    \/ \E e \in EventIds : WsAccept(c, e)
    \/ WsSubscribe(c)
    \/ WsSpawnPing(c)
    \/ WsPingTick(c)
    \/ WsListen(c)
    \/ WsClose(c)
    \/ WsUnsubscribe(c)
    \/ WsCancelPing(c)

WsNext ==
    \/ \E c \in Conns : WsServer(c)
    \/ \E c \in Conns : WsClientClose(c)
    \/ \E e \in EventIds : WsPublish(e)

WsSpec == WsInit /\ [][WsNext]_vars

\* the event loop runs every step of the server that stays enabled; nothing
\* makes a client close or a message be published
WsFairSpec == WsSpec /\ \A c \in Conns : WF_vars(WsServer(c))

\* ---------------------------------------------------------------- event handlers
\* Event.slots and Event.reviews of a stored event
EventSlots(e) == {s \in DOMAIN slots : slots[s].event_id = e}

\* GET /events/{event_id}
GetEvent(e) ==
    /\ delResult' = [op |-> "get", event_id |-> e,
                     status |-> IF e \in DOMAIN events THEN "Found" ELSE "NotFound"]
    /\ UNCHANGED <<bvars, rvars, lvars, fvars, wvars, cvars, uvars>>

\* DELETE /events/{event_id}: 404 when get_event finds nothing; else
\* session.delete(event) and commit. The relationships slots and reviews have
\* no delete cascade, so the flush sets event_id of every slot and review of
\* the event to NULL; the column is NOT NULL, the statement fails with
\* IntegrityError and the transaction is rolled back
DeleteEvent(e) ==
    IF e \notin DOMAIN events
    THEN /\ delResult' = [op |-> "delete", event_id |-> e, status |-> "NotFound"]
         /\ UNCHANGED <<bvars, rvars, lvars, fvars, wvars, cvars, uvars>>
    ELSE IF EventSlots(e) # {} \/ EventReviews(e) # {}
         THEN /\ delResult' = [op |-> "delete", event_id |-> e, status |-> "IntegrityError"]
              /\ UNCHANGED <<bvars, rvars, lvars, fvars, wvars, cvars, uvars>>
         ELSE /\ events' = [x \in DOMAIN events \ {e} |-> events[x]]
              /\ delResult' = [op |-> "delete", event_id |-> e, status |-> "Deleted"]
              /\ UNCHANGED <<bvars, reviews, rpc, rreq, rloc, rresult, rclock,
                             lvars, fvars, wvars, cvars, uvars>>

\* the stored rows: slot s1 may be missing or belong to either event; each of
\* the two bookings of s2 may have a review
ReviewRows(b) ==
    { [event_id |-> booking_event(b), booking_id |-> b, rating |-> rt,
       comment |-> "x", created_at |-> 1, present |-> TRUE] : rt \in Ratings }

DeleteInit ==
    /\ bookings = <<[slot_id |-> "s2", name |-> "ann", email |-> "a",
                     status |-> CONFIRMED, booked_at |-> 1],
                    [slot_id |-> "s2", name |-> "ann", email |-> "b",
                     status |-> CONFIRMED, booked_at |-> 2]>>
    /\ \E S \in {{"s2"}, SlotIds}, e \in EventIds :
           slots = [s \in S |-> IF s = "s1" THEN [event_id |-> e, max_bookings |-> 1]
                                            ELSE [event_id |-> "e2", max_bookings |-> 2]]
    /\ pc = [p \in Procs |-> "idle"]
    /\ req = [p \in Procs |-> NoReq]
    /\ booking = [p \in Procs |-> NoBooking]
    /\ result = [p \in Procs |-> "Booked"]
    /\ published = <<>>
    /\ emailQueue = {1, 2}
    /\ clock = 2
    /\ reviews \in {<<>>} \cup { <<x>> : x \in ReviewRows(1) \cup ReviewRows(2) }
                   \cup { <<x, y>> : x \in ReviewRows(1), y \in ReviewRows(2) }
    /\ events = [e \in EventIds |->
                   [rating_avg |-> avg_rating(e), rating_count |-> count_reviews(e)]]
    /\ rpc = [r \in Reviewers |-> "idle"]
    /\ rreq = [r \in Reviewers |-> NoRReq]
    /\ rloc = [r \in Reviewers |-> NoRLoc]
    /\ rresult = [r \in Reviewers |-> "none"]
    /\ rclock = 0
    /\ ListingStoreInit
    /\ FxStoreInit
    /\ WsStoreInit
    /\ DeleteStoreInit
    /\ CreateStoreInit
    /\ UpdateStoreInit

DeleteNext ==
    \/ \E e \in EventIds : GetEvent(e)
    \/ \E e \in EventIds : DeleteEvent(e)

DeleteSpec == DeleteInit /\ [][DeleteNext]_vars

\* ---------------------------------------------------------------- create handlers
\* start times of the slots in a payload
Starts == {1, 2}

\* EventCreate.slots: one slot at least
SlotPayloads == UNION {[1..n -> Starts] : n \in 1..MaxSlots}

\* event ids that no stored event and no open transaction has
FreeEventIds ==
    EventIds \ (DOMAIN events \cup {creation[k].event_id : k \in Creators})

\* create_event is called: by the endpoint, which hands over the SlotInput
\* objects of the payload, or directly with a list of dicts
StartCreateEvent(k, starts, via) ==
    /\ creation[k].pc = "idle"
    /\ FreeEventIds # {}
    /\ creation' = [creation EXCEPT ![k] =
                       [pc |-> "flush", via |-> via, starts |-> starts,
                        event_id |-> NoEvent, result |-> "pending"]]
    /\ UNCHANGED <<bvars, rvars, lvars, fvars, wvars, dvars, uvars>>

\* a flush that commits: the event row is stored at once
CreateFlushCommitting(k) ==
    /\ creation[k].pc = "flush"
    /\ \E e \in FreeEventIds :
           /\ creation' = [creation EXCEPT ![k].pc = "commit", ![k].event_id = e]
           /\ events' = [x \in DOMAIN events \cup {e} |->
                           IF x = e THEN [rating_avg |-> NullAvg, rating_count |-> 0]
                                    ELSE events[x]]
    /\ UNCHANGED <<bvars, reviews, rpc, rreq, rloc, rresult, rclock,
                   lvars, fvars, wvars, dvars, uvars>>

\* session.add(event); session.flush(): the event row is inserted in the
\* open transaction, where no other session sees it, and event.id is set
CreateFlush(k) ==
    /\ creation[k].pc = "flush"
    /\ \E e \in FreeEventIds :
           creation' = [creation EXCEPT ![k].pc = "commit", ![k].event_id = e]
    /\ UNCHANGED <<bvars, rvars, lvars, fvars, wvars, dvars, uvars>>

\* the Slot rows are built and session.commit() inserts them: subscripting a
\* SlotInput raises TypeError, two slots with one start violate
\* uix_event_start and raise IntegrityError; the session is then rolled back
\* and the event row is gone with it. Else the event and its slots are
\* stored together; a slot's id is the pair of its event and its position
CreateCommit(k) ==
    LET c == creation[k]
        e == c.event_id
        fail(r) ==
            /\ creation' = [creation EXCEPT ![k].pc = "idle", ![k].result = r]
            /\ UNCHANGED <<events, slots>>
    IN  /\ c.pc = "commit"
        /\ IF c.via = "endpoint" THEN fail("TypeError")
           ELSE IF \E i, j \in DOMAIN c.starts : i # j /\ c.starts[i] = c.starts[j]
                THEN fail("IntegrityError")
                ELSE /\ creation' = [creation EXCEPT ![k].pc = "idle",
                                                     ![k].result = "Created"]
                     /\ events' = [x \in DOMAIN events \cup {e} |->
                                     IF x = e
                                     THEN [rating_avg |-> NullAvg, rating_count |-> 0]
                                     ELSE events[x]]
                     /\ slots' = [x \in DOMAIN slots \cup {<<e, i>> : i \in DOMAIN c.starts} |->
                                    IF x \in DOMAIN slots THEN slots[x]
                                    ELSE [event_id |-> e, start_utc |-> c.starts[x[2]],
                                          max_bookings |-> 1]]
        /\ UNCHANGED <<bookings, pc, req, booking, result, published, emailQueue, clock,
                       reviews, rpc, rreq, rloc, rresult, rclock,
                       lvars, fvars, wvars, dvars, uvars>>

\* an empty store
CreateInit ==
    /\ slots = <<>>
    /\ bookings = <<>>
    /\ pc = [p \in Procs |-> "idle"]
    /\ req = [p \in Procs |-> NoReq]
    /\ booking = [p \in Procs |-> NoBooking]
    /\ result = [p \in Procs |-> "none"]
    /\ published = <<>>
    /\ emailQueue = {}
    /\ clock = 0
    /\ reviews = <<>>
    /\ events = <<>>
    /\ rpc = [r \in Reviewers |-> "idle"]
    /\ rreq = [r \in Reviewers |-> NoRReq]
    /\ rloc = [r \in Reviewers |-> NoRLoc]
    /\ rresult = [r \in Reviewers |-> "none"]
    /\ rclock = 0
    /\ ListingStoreInit
    /\ FxStoreInit
    /\ WsStoreInit
    /\ DeleteStoreInit
    /\ CreateStoreInit
    /\ UpdateStoreInit

CreateNext ==
    \/ \E k \in Creators, st \in SlotPayloads, via \in {"endpoint", "crud"} :
          StartCreateEvent(k, st, via)
    \/ \E k \in Creators : CreateFlush(k)
    \/ \E k \in Creators : CreateCommit(k)

CreateSpec == CreateInit /\ [][CreateNext]_vars

\* ---------------------------------------------------------------- properties
ConfirmedOf(s, e) ==
    {i \in BookingIds : /\ bookings[i].slot_id = s
                        /\ bookings[i].email = e
                        /\ bookings[i].status = CONFIRMED}

RowsOf(s, e) ==
    {i \in BookingIds : bookings[i].slot_id = s /\ bookings[i].email = e}

\* handler p leaves position l in this step
Leaves(p, l) == pc[p] = l /\ pc'[p] # l

\* handler p returns outcome r in this step
Returns(p, r) == pc[p] # "idle" /\ pc'[p] = "idle" /\ result'[p] = r

\* C1: for every slot with capacity N and every interleaving of concurrent
\* reserve calls, the number of CONFIRMED bookings on the slot is at most N
\* in every reachable state.
C1_CapacityNeverExceeded ==
    \A s \in SlotIds : booking_count(s) <= slots[s].max_bookings

\* C2: in every reachable state, also after concurrent reserve calls that
\* carry the same (slot, email), at most one CONFIRMED booking exists for
\* each (slot, email) pair.
C2_OneConfirmedPerPair ==
    \A s \in SlotIds, e \in Emails : Cardinality(ConfirmedOf(s, e)) <= 1

\* two reserves of one pair raced past the checks: one row was stored, the
\* other insert was rejected, and nothing has been cancelled
C2_Witness ==
    /\ \E p \in Procs : result[p] = "IntegrityError"
    /\ \E i \in BookingIds : bookings[i].status = CONFIRMED
    /\ \A i \in BookingIds : bookings[i].status = CONFIRMED

\* C3: reserve checks the duplicate first and the capacity second: an email
\* that holds a CONFIRMED booking on the slot gets DuplicateBooking even when
\* the slot is full; SlotFull is returned only by the capacity check, which
\* runs only after the duplicate check found no CONFIRMED booking of the
\* email, and only when the CONFIRMED count is at least max_bookings.  On a
\* capacity-1 slot booked by A: A again gives DuplicateBooking, B SlotFull.
C3_Scenario ==
    \A s \in SlotIds, a \in Visitors :
        (/\ slots[s].max_bookings = 1
         /\ Cardinality(SlotBookings(s)) = 1
         /\ booking_exists(s, a))
        => /\ make_booking_outcome(s, a) = "DuplicateBooking"
           /\ \A b \in Visitors \ {a} : make_booking_outcome(s, b) = "SlotFull"

C3_Steps ==
    \A p \in Procs :
        LET s == req[p].slot_id
            e == req[p].email
        IN  /\ Leaves(p, "dup") =>
                  IF booking_exists(s, e)
                     THEN Returns(p, "DuplicateBooking")
                     ELSE pc'[p] = "count"
            /\ Leaves(p, "count") =>
                  IF booking_count(s) >= slots[s].max_bookings
                     THEN Returns(p, "SlotFull")
                     ELSE pc'[p] = "insert"
            /\ (pc'[p] = "count" /\ pc[p] # "count") =>
                  pc[p] = "dup" /\ ~booking_exists(s, e)
            /\ Returns(p, "SlotFull") =>
                  pc[p] = "count" /\ booking_count(s) >= slots[s].max_bookings
            /\ Returns(p, "DuplicateBooking") =>
                  pc[p] = "dup" /\ booking_exists(s, e)

C3_CheckOrder == []C3_Scenario /\ [][C3_Steps]_vars

\* the capacity-1 slot holds one CONFIRMED booking; one handler has answered
\* DuplicateBooking and the other SlotFull
C3_Witness ==
    /\ Cardinality(SlotBookings("s1")) = 1
    /\ booking_count("s1") = 1
    /\ \E p, q \in Procs : result[p] = "DuplicateBooking" /\ result[q] = "SlotFull"

\* C4: after a CONFIRMED booking on a full slot is cancelled, its status is
\* CANCELLED, the slot's CONFIRMED count is one lower, and a subsequent
\* reserve on that slot by an email that has no booking on it succeeds.
C4_Step ==
    \A p \in Procs, b \in BookingIds, s \in SlotIds :
        (/\ Leaves(p, "ccommit")
         /\ booking[p] = b
         /\ bookings[b].slot_id = s
         /\ bookings[b].status = CONFIRMED
         /\ booking_count(s) >= slots[s].max_bookings)
        => /\ bookings'[b].status = CANCELLED
           /\ booking_count(s)' = booking_count(s) - 1
           /\ \A e \in Visitors :
                 RowsOf(s, e) = {} => make_booking_outcome(s, e)' = "Booked"

C4_CancelFreesSeat == [][C4_Step]_vars

\* C5: at most one booking row of any status exists for each (slot, email)
\* pair; once the pair's booking is cancelled, the insert of a later reserve
\* for the same pair is rejected and adds no row.
C5_Rows ==
    \A s \in SlotIds, e \in Emails : Cardinality(RowsOf(s, e)) <= 1

C5_Steps ==
    \A p \in Procs :
        (/\ Leaves(p, "insert")
         /\ \E i \in RowsOf(req[p].slot_id, req[p].email) :
               bookings[i].status = CANCELLED)
        => /\ bookings' = bookings
           /\ pc'[p] = "idle"
           /\ result'[p] # "Booked"

C5_OneRowPerPair == []C5_Rows /\ [][C5_Steps]_vars

\* the only booking was cancelled and a later insert of its pair was rejected
C5_Witness ==
    /\ Len(bookings) = 1
    /\ bookings[1].status = CANCELLED
    /\ \E p, q \in Procs : result[p] = "IntegrityError" /\ result[q] = "Cancelled"

\* C6: whenever the uniqueness constraint on (slot, email) rejects the insert
\* of a reserve that passed the pre-checks, the caller gets DuplicateBooking.
C6_Step ==
    \A p \in Procs :
        (Leaves(p, "insert") /\ uix_slot_email(req[p].slot_id, req[p].email))
        => Returns(p, "DuplicateBooking")

C6_ConflictTranslated == [][C6_Step]_vars

\* C7: a cancel of a booking that is already CANCELLED changes no state and
\* publishes nothing: crud.cancel_booking returns the booking without a
\* write, the request-facing entry fails with AlreadyCancelled.
C7_Step ==
    \A p \in Procs :
        LET b == req[p].booking_id
        IN  /\ (/\ Leaves(p, "cget")
                /\ req[p].status = CANCELLED
                /\ b \in BookingIds
                /\ bookings[b].status = CANCELLED)
               => /\ Returns(p, "AlreadyCancelled")
                  /\ UNCHANGED <<slots, bookings, published, emailQueue>>
            /\ (/\ Leaves(p, "xget")
                /\ b \in BookingIds
                /\ bookings[b].status = CANCELLED)
               => /\ Returns(p, "Unchanged")
                  /\ UNCHANGED <<slots, bookings, published, emailQueue>>
            /\ (Returns(p, "AlreadyCancelled") \/ Returns(p, "Unchanged"))
               => UNCHANGED <<slots, bookings, published, emailQueue>>

C7_CancelOfCancelled == [][C7_Step]_vars

\* a second cancel request for the one cancelled booking was refused
C7_Witness ==
    /\ \E p \in Procs : result[p] = "AlreadyCancelled"
    /\ \E i \in BookingIds : bookings[i].status = CANCELLED
    /\ \A i \in BookingIds : bookings[i].status = CANCELLED

\* C8: a booking is created CONFIRMED; the only status change is CONFIRMED
\* to CANCELLED and CANCELLED is kept for ever; a patch whose status is not
\* CANCELLED is rejected and changes nothing; slot, name, email and
\* booked_at of a stored booking never change.
C8_Step ==
    /\ \A i \in BookingIds :
          /\ i \in DOMAIN bookings'
          /\ bookings'[i].slot_id = bookings[i].slot_id
          /\ bookings'[i].name = bookings[i].name
          /\ bookings'[i].email = bookings[i].email
          /\ bookings'[i].booked_at = bookings[i].booked_at
          /\ bookings[i].status = CANCELLED => bookings'[i].status = CANCELLED
          /\ bookings'[i].status # bookings[i].status =>
                bookings[i].status = CONFIRMED /\ bookings'[i].status = CANCELLED
    /\ \A i \in DOMAIN bookings' \ BookingIds : bookings'[i].status = CONFIRMED
    /\ \A p \in Procs :
          (Leaves(p, "cget") /\ req[p].status # CANCELLED)
          => Returns(p, "OnlyCancellation") /\ bookings' = bookings

C8_Lifecycle == [][C8_Step]_vars

\* a booking has been cancelled and a patch to CONFIRMED has been refused
C8_Witness ==
    /\ \E i \in BookingIds : bookings[i].status = CANCELLED
    /\ \E p \in Procs : result[p] = "OnlyCancellation"

\* C9: slot.remaining = max(max_bookings - #CONFIRMED, 0) and slot.is_full
\* holds exactly when #CONFIRMED >= max_bookings, CANCELLED bookings not
\* counted; a slot without bookings has remaining = max_bookings.
C9_OccupancyFromConfirmed ==
    \A s \in SlotIds :
        /\ remaining(s) = Max(slots[s].max_bookings - booking_count(s), 0)
        /\ is_full(s) = (booking_count(s) >= slots[s].max_bookings)
        /\ SlotBookings(s) = {} => remaining(s) = slots[s].max_bookings

\* C10: every successful reserve and every genuine cancellation through the
\* request path publishes, after its commit, exactly one message on the topic
\* of the slot's event, whose remaining and is_full are computed from the
\* CONFIRMED count of the slot as it stands after the mutation.
C10_Step ==
    \A p \in Procs :
        /\ (Leaves(p, "publish") \/ Leaves(p, "cpublish")) =>
              LET b == booking[p]
                  s == bookings[b].slot_id
                  m == published'[Len(published')]
              IN  /\ b \in BookingIds
                  /\ Leaves(p, "publish") => bookings[b].status = CONFIRMED
                  /\ Leaves(p, "cpublish") => bookings[b].status = CANCELLED
                  /\ Len(published') = Len(published) + 1
                  /\ m.channel = <<"event", slots[s].event_id>>
                  /\ m.slot_id = s
                  /\ m.remaining = Max(slots[s].max_bookings - booking_count(s), 0)
                  /\ m.is_full = (booking_count(s) >= slots[s].max_bookings)
        /\ Returns(p, "Booked") => Leaves(p, "publish")
        /\ (Returns(p, "Cancelled") /\ req[p].kind = "cancel") => Leaves(p, "cpublish")
        /\ published' # published =>
              \E q \in Procs : Leaves(q, "publish") \/ Leaves(q, "cpublish")

C10_BroadcastAfterCommit == [][C10_Step]_vars

\* C11: a reserve that is rejected (DuplicateBooking, SlotFull, or a slot
\* that does not belong to the event) creates no booking row, leaves every
\* existing booking unchanged, publishes no broadcast message and enqueues
\* no confirmation notification.
C11_Step ==
    \A p \in Procs :
        /\ (Returns(p, "InvalidSlot") \/ Returns(p, "DuplicateBooking")
               \/ Returns(p, "SlotFull"))
           => /\ pc[p] \in {"slot", "dup", "count"}
              /\ booking[p] = NoBooking
              /\ UNCHANGED <<bookings, published, emailQueue>>
        /\ (Leaves(p, "slot") \/ Leaves(p, "dup") \/ Leaves(p, "count"))
           => /\ booking[p] = NoBooking
              /\ UNCHANGED <<bookings, published, emailQueue>>

C11_RejectedReserveIsInert == [][C11_Step]_vars

\* one reserve went through; a reserve of a foreign slot and a reserve of the
\* full slot were refused, and the store holds the one reserve's effects only
C11_Witness ==
    /\ \E p, q \in Procs : result[p] = "InvalidSlot" /\ result[q] = "SlotFull"
    /\ Len(bookings) = 1
    /\ Len(published) = 1
    /\ emailQueue = {1}

\* C12: when the publish of the broadcast fails during a reserve or a
\* cancel, the operation still returns its booking and the committed
\* bookings are left as they were.
C12_Step ==
    \A p \in Procs :
        (/\ Leaves(p, "publish") \/ Leaves(p, "cpublish")
         /\ Len(published') = Len(published) + 1
         /\ ~published'[Len(published')].delivered)
        => /\ bookings' = bookings
           /\ Leaves(p, "publish") => Returns(p, "Booked")
           /\ Leaves(p, "cpublish") =>
                 /\ Returns(p, "Cancelled")
                 /\ bookings[booking[p]].status = CANCELLED

C12_PublishFailureIsolated == [][C12_Step]_vars

\* a reserve and the cancel of its booking both returned although neither
\* broadcast was delivered
C12_Witness ==
    /\ Len(published) = 2
    /\ \A i \in DOMAIN published : ~published[i].delivered
    /\ \E p, q \in Procs : result[p] = "Booked" /\ result[q] = "Cancelled"
    /\ Len(bookings) = 1
    /\ bookings[1].status = CANCELLED

\* C13: when the enqueue of the confirmation notification fails during a
\* reserve, the failure is not propagated: the reserve returns the CONFIRMED
\* booking, the booking stays stored and the broadcast is still published.
C13_Step ==
    \A p \in Procs :
        Leaves(p, "email") =>
            /\ pc'[p] = "publish"
            /\ result'[p] # "EnqueueError"
            /\ booking[p] \in DOMAIN bookings'

C13_EnqueueFailureIsolated == [][C13_Step]_vars

\* review handler r leaves position l in this step
RLeaves(r, l) == rpc[r] = l /\ rpc'[r] # l

\* review handler r returns outcome o in this step
RReturns(r, o) == rpc[r] # "idle" /\ rpc'[r] = "idle" /\ rresult'[r] = o

\* the stored aggregate of event e is that of the reviews the event has now
AggregateFresh(e) ==
    /\ events[e].rating_count = count_reviews(e)
    /\ IF count_reviews(e) = 0
          THEN events[e].rating_avg = NullAvg
          ELSE /\ events[e].rating_avg.den # 0
               /\ events[e].rating_avg.num * count_reviews(e)
                     = SumRatings(EventReviews(e)) * events[e].rating_avg.den

\* addReview is served for a stored booking of the event in the request
ValidBooking(r) ==
    /\ rreq[r].booking_id \in BookingIds
    /\ booking_event(rreq[r].booking_id) = rreq[r].event_id

\* C14: addReview on a booking whose status is not CONFIRMED fails with
\* BookingNotConfirmed, and addReview on a booking that already has a review
\* fails with ReviewAlreadyExists; in both cases no review is persisted and
\* the event's rating_avg and rating_count are unchanged.
C14_Step ==
    \A r \in Reviewers :
        /\ (/\ RLeaves(r, "aget")
            /\ ValidBooking(r)
            /\ bookings[rreq[r].booking_id].status # CONFIRMED)
           => RReturns(r, "BookingNotConfirmed")
        /\ (/\ RLeaves(r, "aget") \/ RLeaves(r, "aexists")
            /\ ValidBooking(r)
            /\ review_exists(rreq[r].booking_id))
           => IF rpc[r] = "aexists"
                 THEN RReturns(r, "ReviewAlreadyExists")
                 ELSE rpc'[r] = "idle" => rresult'[r] = "ReviewAlreadyExists"
        /\ (RReturns(r, "BookingNotConfirmed") \/ RReturns(r, "ReviewAlreadyExists"))
           => /\ rpc[r] \in {"aget", "aexists"}
              /\ UNCHANGED <<reviews, events>>

C14_AddReviewRejections == [][C14_Step]_vars

\* C14, amended: addReview on a booking whose status is not CONFIRMED fails
\* with BookingNotConfirmed, whether or not the booking has a review;
\* addReview on a CONFIRMED booking that already has a review fails with
\* ReviewAlreadyExists; in both cases no review is persisted and the event's
\* rating_avg and rating_count are unchanged.
C14_StepConfirmed ==
    \A r \in Reviewers :
        /\ (/\ RLeaves(r, "aget")
            /\ ValidBooking(r)
            /\ bookings[rreq[r].booking_id].status # CONFIRMED)
           => RReturns(r, "BookingNotConfirmed")
        /\ (/\ RLeaves(r, "aget") \/ RLeaves(r, "aexists")
            /\ ValidBooking(r)
            /\ rpc[r] = "aget" => bookings[rreq[r].booking_id].status = CONFIRMED
            /\ review_exists(rreq[r].booking_id))
           => IF rpc[r] = "aexists"
                 THEN RReturns(r, "ReviewAlreadyExists")
                 ELSE rpc'[r] = "aexists"
        /\ (RReturns(r, "BookingNotConfirmed") \/ RReturns(r, "ReviewAlreadyExists"))
           => /\ rpc[r] \in {"aget", "aexists"}
              /\ UNCHANGED <<reviews, events>>

C14_AddReviewRejectionsOnConfirmed == [][C14_StepConfirmed]_vars

\* a booking was reviewed and then cancelled; the next addReview for it was
\* refused as BookingNotConfirmed and the one review and its aggregate stay
C14_Witness ==
    /\ \E r \in Reviewers : rresult[r] = "BookingNotConfirmed"
    /\ \E b \in BookingIds : bookings[b].status = CANCELLED /\ review_exists(b)
    /\ Len(reviews) = 1
    /\ events["e2"].rating_count = 1

\* C15: for every interleaving of concurrent addReview calls on the same
\* booking, at most one review for that booking exists in every reachable
\* state; the storage layer rejects a second review row for the booking.
C15_OneReviewPerBooking ==
    \A b \in BookingIds : Cardinality(BookingReviews(b)) <= 1

\* C16: after each add, edit or delete of a review completes, operations
\* run one at a time, the event's rating_count equals the number of reviews
\* linked to the event and rating_avg is their mean (rating_avg *
\* rating_count = sum of ratings); an event without reviews, in particular
\* after its only review is deleted, has a null rating_avg and count 0.
C16_AggregateAfterEachOperation ==
    rpc["r1"] = "idle" => \A e \in EventIds : AggregateFresh(e)

\* the only review of the event has been deleted
C16_Witness ==
    /\ rresult["r1"] = "Deleted"
    /\ Len(reviews) = 1
    /\ ~reviews[1].present
    /\ events["e2"] = [rating_avg |-> NullAvg, rating_count |-> 0]

\* C17: for every interleaving of concurrent review add, edit and delete
\* operations on one event, once all operations have finished the stored
\* rating_count and rating_avg are the count and mean of the reviews then
\* present: no stale aggregate survives at quiescence.
C17_NoStaleAggregateAtQuiescence ==
    (\A r \in Reviewers : rpc[r] = "idle") => \A e \in EventIds : AggregateFresh(e)

\* C18: a review is only persisted for a booking that is CONFIRMED at the
\* moment the review row is committed, also when addReview runs concurrently
\* with a cancellation of the booking.
C18_Step ==
    \A r \in Reviewers :
        (RLeaves(r, "ainsert") /\ Len(reviews') = Len(reviews) + 1)
        => bookings[reviews'[Len(reviews')].booking_id].status = CONFIRMED

C18_ReviewOnlyOnConfirmed == [][C18_Step]_vars

\* C19: editReview with neither rating nor comment fails and leaves the
\* review and the aggregates unchanged; editReview with one of the two
\* changes that field only, leaves the other field, the review's booking,
\* event and creation time unchanged, and then recomputes the aggregate.
C19_Step ==
    \A r \in Reviewers :
        LET i == rloc[r].review_id
        IN  /\ (/\ RLeaves(r, "eget")
                /\ get_review(rreq[r].review_id)
                /\ rreq[r].rating = NoRating
                /\ rreq[r].comment = NoComment)
               => RReturns(r, "NoChanges")
            /\ RReturns(r, "NoChanges") => UNCHANGED <<reviews, events>>
            /\ RLeaves(r, "eupdate") =>
                  /\ rpc'[r] = "rread"
                  /\ DOMAIN reviews' = DOMAIN reviews
                  /\ \A j \in ReviewIds \ {i} : reviews'[j] = reviews[j]
                  /\ reviews'[i].booking_id = reviews[i].booking_id
                  /\ reviews'[i].event_id = reviews[i].event_id
                  /\ reviews'[i].created_at = reviews[i].created_at
                  /\ reviews'[i].present = reviews[i].present
                  /\ reviews'[i].rating =
                        IF rreq[r].rating # NoRating THEN rreq[r].rating
                                                     ELSE reviews[i].rating
                  /\ reviews'[i].comment =
                        IF rreq[r].comment # NoComment THEN rreq[r].comment
                                                       ELSE reviews[i].comment
                  /\ events' = events
            /\ RReturns(r, "Edited") =>
                  /\ rpc[r] = "rwrite"
                  /\ reviews' = reviews
                  /\ AggregateFresh(rloc[r].event_id)'

C19_EditReview == [][C19_Step]_vars

\* an edit that supplied the comment alone has written the review
C19_Witness ==
    \E r \in Reviewers :
        /\ rpc[r] = "rread"
        /\ rreq[r].kind = "edit"
        /\ rreq[r].rating = NoRating
        /\ reviews[rloc[r].review_id].comment = "y"
        /\ reviews[rloc[r].review_id].rating \in Ratings

\* s contains t, letter case ignored
Contains(s, t) ==
    \E i \in 0..(Len(s) - Len(t)) : SubSeq(lower(s), i + 1, i + Len(t)) = lower(t)

\* the events that satisfy every clause of the filter
Matching(f) ==
    {e \in EventIds :
        /\ \/ f.search = NoSearch
           \/ Contains(catalogue[e].title, f.search)
           \/ Contains(catalogue[e].description, f.search)
           \/ Contains(catalogue[e].host_name, f.search)
        /\ f.category = NoCategory \/ catalogue[e].category = f.category
        /\ f.price_min = NoPrice \/ catalogue[e].price_minor >= f.price_min
        /\ f.price_max = NoPrice \/ catalogue[e].price_minor <= f.price_max}

\* C20: for every set of events and every filter, the listing selects
\* exactly the events that satisfy search (a case-insensitive substring of
\* title, description or host name), category, price_min and price_max,
\* each clause holding when its parameter is absent; the sort mode never
\* adds or removes events.
C20_ListingSelectsMatching ==
    listing.status # "none" =>
        /\ listing.status = "ok"
        /\ listing.ids = Matching(filters)

\* C28: on a successful reserve, after the booking commits, the broadcaster
\* is invoked with the slot's new occupancy before the confirmation
\* notification is enqueued.
C28_Step ==
    \A p \in Procs :
        /\ (Leaves(p, "email") /\ emailQueue' # emailQueue) =>
               \E i \in DOMAIN published :
                   /\ published[i].slot_id = req[p].slot_id
                   /\ published[i].remaining <= slots[req[p].slot_id].max_bookings - 1
        /\ Leaves(p, "publish") => booking[p] \notin emailQueue

C28_BroadcastBeforeEnqueue == [][C28_Step]_vars

\* C23: convert_minor returns the amount itself when the two currencies are
\* equal, whatever the table; when they differ and both are in the table it
\* returns amount * rates[to] / rates[from] rounded to the nearest integer;
\* 4500 from USD to EUR at 0.9 is 4050.
C23_ConvertMinor ==
    LET c == converted
    IN  c.status # "none" =>
            /\ c.from_currency = c.to_currency =>
                   c.status = "ok" /\ c.value = c.amount_minor
            /\ (/\ c.from_currency # c.to_currency
                /\ c.from_currency \in DOMAIN c.rates
                /\ c.to_currency \in DOMAIN c.rates) =>
                   /\ c.status = "ok"
                   /\ LET exact == c.amount_minor * c.rates[c.to_currency]
                          d == c.rates[c.from_currency]
                      IN  /\ 2 * (c.value * d - exact) <= d
                          /\ 2 * (exact - c.value * d) <= d
            /\ (/\ c.amount_minor = 4500 /\ c.from_currency = "USD" /\ c.to_currency = "EUR"
                /\ "USD" \in DOMAIN c.rates /\ "EUR" \in DOMAIN c.rates
                /\ c.rates["USD"] = RateUnit /\ c.rates["EUR"] = 9) =>
                   c.value = 4050

C23_Witness ==
    /\ converted.status = "ok"
    /\ converted.amount_minor = 15
    /\ converted.from_currency = "GBP"
    /\ converted.to_currency = "USD"
    /\ converted.rates = [c \in Currencies |->
                            IF c = "USD" THEN RateUnit ELSE IF c = "EUR" THEN 9 ELSE 4]
    /\ converted.value = 38

\* C24: convert_minor fails with MissingRate whenever from_currency or
\* to_currency is absent from the table.
C24_MissingRate ==
    (/\ converted.status # "none"
     /\ \/ converted.from_currency \notin DOMAIN converted.rates
        \/ converted.to_currency \notin DOMAIN converted.rates) =>
        converted.status = "ValueError"

\* C24 as the code has it: convert_minor fails with MissingRate whenever the
\* two currencies differ and one of them is absent from the table.
C24_MissingRateBetweenDifferent ==
    (/\ converted.status # "none"
     /\ converted.from_currency # converted.to_currency
     /\ \/ converted.from_currency \notin DOMAIN converted.rates
        \/ converted.to_currency \notin DOMAIN converted.rates) =>
        converted.status = "ValueError"

C24_Witness ==
    /\ converted.status = "ValueError"
    /\ converted.from_currency = "USD"
    /\ converted.to_currency = "GBP"
    /\ "USD" \in DOMAIN converted.rates
    /\ "GBP" \notin DOMAIN converted.rates

C26_DisconnectReleases ==
    \A c \in Conns :
        (wsClient[c] = "closed") ~> (~wsSub[c] /\ wsPing[c] # "running")

\* C27: after delete_event succeeds the event can no longer be retrieved and
\* no slot and no review that references it remains; deleting an event that
\* has slots or reviews succeeds and removes them with it.
C27_Step ==
    \A e \in EventIds :
        (/\ e \in DOMAIN events
         /\ delResult' # delResult
         /\ delResult'.op = "delete"
         /\ delResult'.event_id = e) =>
            /\ delResult'.status = "Deleted"
            /\ e \notin DOMAIN events'
            /\ \A s \in DOMAIN slots' : slots'[s].event_id # e
            /\ \A i \in DOMAIN reviews' : reviews'[i].present => reviews'[i].event_id # e

C27_DeleteRemovesOwned == [][C27_Step]_vars

\* C29: recompute_event_rating is idempotent and has a bounded frame: a call
\* for event E writes the mean and the count of E's reviews, so a second call
\* with no review change in between leaves both as they are, and it changes
\* no review, no other event and no other field of E.
C29_Step ==
    RLeaves("r1", "rwrite") =>
        LET e == rloc["r1"].event_id
            fresh == [rating_avg |-> avg_rating(e), rating_count |-> count_reviews(e)]
        IN  /\ events'[e] = fresh
            /\ events[e] = fresh => events' = events
            /\ \A x \in EventIds \ {e} : events'[x] = events[x]
            /\ UNCHANGED <<reviews, catalogue, slots, bookings>>

C29_RecomputeIdempotent == [][C29_Step]_vars

\* a direct call that follows the call made by an add
C29_Witness ==
    /\ rresult["r1"] = "Recomputed"
    /\ Len(reviews) = 1
    /\ reviews[1].present
    /\ events["e2"] = [rating_avg |-> [num |-> reviews[1].rating, den |-> 1],
                       rating_count |-> 1]

\* a listing request that passed validation
Accepted == listing.status \notin {"none", "ValidationError"}

\* C21: for every filter, page, size and sort mode the total returned with a
\* listing is the number of distinct events that match the filters, whatever
\* the page, the size and the sort, an event with several slots or bookings
\* being counted once.
C21_TotalCountsMatching ==
    Accepted =>
        /\ listing.status \in {"ok", "listed"}
        /\ listing.total = Cardinality(Matching(filters))

\* the bookings of event e that popularity counts
PopularityOf(e) ==
    Cardinality({i \in BookingIds :
                    /\ slots[bookings[i].slot_id].event_id = e
                    /\ bookings[i].status = CONFIRMED
                    /\ clock - bookings[i].booked_at <= ThirtyDays})

\* C22: with sort = popularity the events come by descending count of their
\* slots' CONFIRMED bookings of the last 30 days, the later created first
\* among equals; every matching event appears exactly once, one without
\* such a booking after every event that has one.
C22_PopularityOrder ==
    (Accepted /\ filters.sort = "popularity") =>
        /\ listing.status \in {"ok", "listed"}
        /\ Len(listing.order) = Cardinality(Matching(filters))
        /\ {listing.order[i] : i \in DOMAIN listing.order} = Matching(filters)
        /\ \A i, j \in DOMAIN listing.order :
               i < j =>
                   LET a == listing.order[i]
                       b == listing.order[j]
                   IN  \/ PopularityOf(a) > PopularityOf(b)
                       \/ /\ PopularityOf(a) = PopularityOf(b)
                          /\ catalogue[a].created_at >= catalogue[b].created_at

\* positions (page-1)*size+1 to page*size of the sequence o
PageOf(o, page, size) ==
    SubSeq(o, (page - 1) * size + 1, IF page * size < Len(o) THEN page * size ELSE Len(o))

\* C30: every accepted listing request has page >= 1 and 1 <= size <= 100,
\* and its page holds the events at positions (page-1)*size+1 to page*size of
\* the filtered, sorted sequence; a request with size 0, a negative size or a
\* size above 100 is rejected.
C30_Pagination ==
    listing.status \notin {"none", "ok"} =>
        /\ (filters.size < 1 \/ filters.size > MaxSize) =>
               listing.status = "ValidationError"
        /\ listing.status # "ValidationError" =>
               /\ filters.page >= 1
               /\ filters.size >= 1
               /\ filters.size <= MaxSize
               /\ listing.status = "listed"
               /\ Len(listing.items) <= filters.size
               /\ listing.items = PageOf(listing.order, filters.page, filters.size)

\* C31: no two slots of one event have the same start time, and event
\* creation with its slots is atomic: when a slot cannot be inserted neither
\* the event nor any of its slots is stored, and a stored event has every
\* slot of its payload.
C31_UniqueStartAtomicCreate ==
    /\ \A x, y \in DOMAIN slots :
           (x # y /\ slots[x].event_id = slots[y].event_id) =>
               slots[x].start_utc # slots[y].start_utc
    /\ \A k \in Creators :
           LET c == creation[k]
           IN  /\ c.result \in {"IntegrityError", "TypeError"} =>
                      /\ c.event_id \notin DOMAIN events
                      /\ \A x \in DOMAIN slots : slots[x].event_id # c.event_id
               /\ c.result = "Created" =>
                      /\ c.event_id \in DOMAIN events
                      /\ {slots[x].start_utc : x \in EventSlots(c.event_id)}
                             = {c.starts[i] : i \in DOMAIN c.starts}
                      /\ Cardinality(EventSlots(c.event_id)) = Len(c.starts)
    /\ \A e \in DOMAIN events : EventSlots(e) # {}

\* one call stored an event with two slots, another with two slots of one
\* start failed and left nothing
C31_Witness ==
    /\ creation["k1"].result = "Created"
    /\ Len(creation["k1"].starts) = 2
    /\ creation["k2"].result = "IntegrityError"
    /\ DOMAIN events = {creation["k1"].event_id}
    /\ Cardinality(DOMAIN slots) = 2

\* C32: a subscriber connected for event E receives only messages published
\* on E's topic, never one of a reservation or cancellation on a slot of
\* another event, and it receives them in the order they were published.
C32_ScopedInOrder ==
    \A c \in Conns :
        /\ \A i \in DOMAIN wsReceived[c] :
               /\ wsReceived[c][i].event_id = wsEvent[c]
               /\ wsReceived[c][i].n \in 1..wsPublished
        /\ \A i, j \in DOMAIN wsReceived[c] :
               i < j => wsReceived[c][i].n < wsReceived[c][j].n

\* c1 got one message of its event; c2, subscribed for the other event while
\* both were published, got the other one
C32_Witness ==
    /\ wsEvent["c1"] = "e1"
    /\ wsEvent["c2"] = "e2"
    /\ Len(wsReceived["c1"]) = 1
    /\ Len(wsReceived["c2"]) = 1
    /\ wsReceived["c1"][1].n = 2
    /\ wsReceived["c2"][1].n = 1
    /\ wsInbox["c1"] = <<>>
    /\ wsInbox["c2"] = <<>>

\* C33: when several callers of get_rates run concurrently and all miss the
\* cache, at most one external rate fetch is issued for that miss; the other
\* callers obtain the table produced by that one fetch.  Here: of the calls
\* without force_refresh in flight that read an empty cache, at most one has
\* issued a fetch.
C33_SingleFlight ==
    Cardinality({g \in FxCallers : /\ fxCall[g].pc = "write"
                                   /\ ~fxCall[g].force_refresh
                                   /\ fxCall[g].read_ok}) <= 1

\* a step of get_rates of caller g
RatesStepOf(g) == fxCall'[g] # fxCall[g]

\* C37 as stated: while a table is cached, get_rates without force_refresh
\* returns it and issues no fetch; get_rates(force_refresh=True) always
\* fetches and then stores what it got, also the fallback table of a failed
\* fetch over a cached valid table.
C37_Step ==
    \A g \in FxCallers :
        /\ (RatesStepOf(g) /\ fxCall[g].pc = "read" /\ fxCache # NoRates) =>
               /\ fxCall'[g].pc = "idle"
               /\ fxCall'[g].rates = fxCache
               /\ fxCall'[g].fetch = "cached"
        /\ (RatesStepOf(g) /\ fxCall[g].pc = "idle" /\ fxCall'[g].force_refresh) =>
               fxCall'[g].pc = "fetch"
        /\ (RatesStepOf(g) /\ fxCall[g].pc = "write" /\ fxCall[g].force_refresh) =>
               fxCache' = fxCall[g].rates

C37_CachedOrForced == [][C37_Step]_vars

\* C37, amended: the same unless the cache read, respectively the cache
\* write, raises: a call whose read raises goes on to fetch although a table
\* is cached, and a forced refresh whose write raises leaves the cache as it
\* was.
C37_StepCacheUp ==
    \A g \in FxCallers :
        /\ (RatesStepOf(g) /\ fxCall[g].pc = "read" /\ fxCache # NoRates) =>
               \/ /\ fxCall'[g].pc = "idle"
                  /\ fxCall'[g].rates = fxCache
                  /\ fxCall'[g].fetch = "cached"
               \/ /\ ~fxCall'[g].read_ok
                  /\ fxCall'[g].pc = "fetch"
        /\ (RatesStepOf(g) /\ fxCall[g].pc = "idle" /\ fxCall'[g].force_refresh) =>
               fxCall'[g].pc = "fetch"
        /\ (RatesStepOf(g) /\ fxCall[g].pc = "write" /\ fxCall[g].force_refresh) =>
               \/ /\ fxCall'[g].write_ok
                  /\ fxCache' = fxCall[g].rates
                  /\ fxCall[g].fetch = "failed" => fxCache' = FallbackRates
               \/ /\ ~fxCall'[g].write_ok
                  /\ fxCache' = fxCache

C37_CachedOrForcedCacheUp == [][C37_StepCacheUp]_vars

\* the forced refresh of g1 failed and stored the fallback table; the later
\* call of g2 without force_refresh got it from the cache
C37_Witness ==
    /\ fxCall["g1"].pc = "idle"
    /\ fxCall["g1"].force_refresh
    /\ fxCall["g1"].fetch = "failed"
    /\ fxCall["g1"].write_ok
    /\ fxCache = FallbackRates
    /\ fxCall["g2"].pc = "idle"
    /\ ~fxCall["g2"].force_refresh
    /\ fxCall["g2"].fetch = "cached"
    /\ fxCall["g2"].rates = FallbackRates

\* C34: of two or more concurrent request-facing cancel calls on the same
\* CONFIRMED booking exactly one succeeds and publishes one message; every
\* other call fails with AlreadyCancelled and publishes nothing.  Here: a
\* call commits the cancellation and goes on to publish only when it is the
\* one that finds the booking CONFIRMED.
C34_Step ==
    \A p \in Procs :
        (/\ pc[p] = "ccommit"
         /\ req[p].kind = "cancel"
         /\ pc'[p] = "cpublish") =>
            bookings[booking[p]].status = CONFIRMED

C34_OneCancelWins == [][C34_Step]_vars

\* the messages published for slot s, by position
MessagesOf(s) == {i \in DOMAIN published : published[i].slot_id = s}

\* every handler has returned, every committed reservation went on to its
\* publish, and every publish succeeded
AllPublished ==
    /\ \A p \in Procs : pc[p] = "idle"
    /\ \A b \in BookingIds : b \in emailQueue
    /\ \A i \in DOMAIN published : published[i].delivered

\* C35: for every interleaving of concurrent reservations and cancellations
\* on one slot, once all of them have finished and all publishes succeeded,
\* the last message published for the slot carries the remaining and is_full
\* values of the slot's final committed state.
C35_LastMessageCurrent ==
    \A s \in SlotIds :
        (AllPublished /\ MessagesOf(s) # {}) =>
            LET m == published[CHOOSE i \in MessagesOf(s) :
                                  \A j \in MessagesOf(s) : j <= i]
            IN  /\ m.remaining = remaining(s)
                /\ m.is_full = is_full(s)

\* C36: in every reachable state each review's event is the event of the slot
\* of the review's booking: addReview through the request path rejects a
\* booking that does not belong to the event in the request and persists
\* nothing, and no later operation changes a review's event or booking.
C36_Step ==
    /\ \A i \in DOMAIN reviews' :
          /\ reviews'[i].booking_id \in DOMAIN bookings'
          /\ reviews'[i].event_id
                = slots'[bookings'[reviews'[i].booking_id].slot_id].event_id
    /\ \A r \in Reviewers :
          (/\ RLeaves(r, "aget")
           /\ rreq[r].booking_id \in BookingIds
           /\ booking_event(rreq[r].booking_id) # rreq[r].event_id) =>
              /\ RReturns(r, "InvalidBooking")
              /\ reviews' = reviews
    /\ \A i \in DOMAIN reviews :
          /\ i \in DOMAIN reviews'
          /\ reviews'[i].event_id = reviews[i].event_id
          /\ reviews'[i].booking_id = reviews[i].booking_id

C36_ReviewEventOfBooking == [][C36_Step]_vars

\* a review of a booking of e2 is stored under e2, and a request to review a
\* booking of e2 under e1 is about to be checked
C36_Witness ==
    /\ Len(reviews) = 1
    /\ reviews[1].present
    /\ reviews[1].event_id = "e2"
    /\ rpc["r1"] = "aget"
    /\ rreq["r1"].booking_id \in BookingIds
    /\ booking_event(rreq["r1"].booking_id) # rreq["r1"].event_id

====
